---- MODULE Spec2Model ----
(***************************************************************************)
(* A model of the welding-robot pipeline's report core: the threshold      *)
(* loader, the alert classifier, the KPI engine, the downtime analyzer and *)
(* the event cleaner.                                                      *)
(*                                                                         *)
(* Numbers are fixed-point integers.  A scrap rate is counted in units of  *)
(* 1e-5 (0.08 is 8000), a duration or a timestamp in units of 1/100 s      *)
(* (90 s is 9000).  round(x, 4) on a scrap rate and round(x, 1) on a       *)
(* duration are then both "round to the nearest multiple of 10".           *)
(*                                                                         *)
(* A Python value that may be of several types (a YAML scalar, a config    *)
(* entry, the thresholds argument) is a record with a kind field.          *)
(***************************************************************************)
EXTENDS Integers, Sequences, FiniteSets, TLC

VARIABLES
    config_file,   \* what is on disk at config/thresholds.yaml
    thresholds,    \* the thresholds object a caller holds (None or a loaded mapping)
    events,        \* the events table handed to the operation under study
    quality,       \* the quality table handed to the operation under study
    result,        \* what the last call returned (or raised)
    reports,       \* the files of data/reports: name -> content
    clock,         \* the wall clock, in seconds
    data_files,    \* the files of data/raw and data/staged: name -> table
    runner,        \* where the dashboard's pipeline run stands
    invocations,   \* how many commands have been invoked so far
    writers        \* the overlapping report-kpi invocations, each at its step

vars ==
    <<config_file, thresholds, events, quality, result, reports, clock,
      data_files, runner, invocations, writers>>

NoReports == [f \in {} |-> 0]

NoFiles == [f \in {} |-> 0]

\* no pipeline run is under way
Idle == [pc |-> "idle"]

NoResult == [op |-> "none"]

\* no invocation is under way
NoWriters == <<>>

----------------------------------------------------------------------------
(* Arithmetic helpers *)

\* round() of a fixed-point number x to the nearest multiple of q, ties to the
\* even multiple (Python's round is round-half-even)
RoundTo(x, q) ==
    LET lo == x \div q
        r  == x % q
    IN  IF 2 * r < q THEN lo * q
        ELSE IF 2 * r > q THEN (lo + 1) * q
        ELSE IF lo % 2 = 0 THEN lo * q ELSE (lo + 1) * q

\* a duration of n seconds in model ticks (1/100 s)
Seconds(n) == n * 100

----------------------------------------------------------------------------
(* Python values of the threshold configuration *)

PyNone == [kind |-> "none"]
Absent == [kind |-> "absent", v |-> 0]          \* the key is not in the dict
Num(n) == [kind |-> "num", v |-> n]             \* a YAML int or float
NumStr(n) == [kind |-> "numstr", v |-> n]       \* a string float() accepts, e.g. "0.2"
BadStr == [kind |-> "str", v |-> 0]             \* a string float() rejects, e.g. "bad"
Null == [kind |-> "null", v |-> 0]              \* YAML null: float(None) is a TypeError

METRICS == {"scrap_rate", "downtime_event_sec", "cycle_time_p95_sec"}

NoEntry == [kind |-> "absent", warning_gt |-> Absent, alert_gt |-> Absent]
ScalarEntry == [kind |-> "scalar", warning_gt |-> Absent, alert_gt |-> Absent]
DictEntry(w, a) == [kind |-> "dict", warning_gt |-> w, alert_gt |-> a]
PyDict(m) == [kind |-> "dict", m |-> m]

\* float(x): the value, or a ValueError / TypeError
float(x) ==
    IF x.kind \in {"num", "numstr"} THEN [ok |-> TRUE, v |-> x.v]
    ELSE [ok |-> FALSE, v |-> 0]

\* dict.get(key, default)
DictGet(x, default) == IF x.kind = "absent" THEN default ELSE x

----------------------------------------------------------------------------
(* report/alerts.py *)

SCRAP_WARNING_GT == 8000
SCRAP_ALERT_GT == 10000
DOWNTIME_WARNING_GT == 30000
DOWNTIME_ALERT_GT == 180000
CYCLE_P95_WARNING_GT == 12000
CYCLE_P95_ALERT_GT == 15000

Pair(w, a) == [warning_gt |-> w, alert_gt |-> a]

DefaultPair(metric) ==
    CASE metric = "scrap_rate" -> Pair(SCRAP_WARNING_GT, SCRAP_ALERT_GT)
      [] metric = "downtime_event_sec" -> Pair(DOWNTIME_WARNING_GT, DOWNTIME_ALERT_GT)
      [] metric = "cycle_time_p95_sec" -> Pair(CYCLE_P95_WARNING_GT, CYCLE_P95_ALERT_GT)

\* faulty variant: a non-numeric value under one key keeps the valid value of the other
GetThresholdsKeepsValid(th, metric, default_warning, default_alert) ==
    IF th.kind = "dict" /\ th.m[metric].kind = "dict"
    THEN LET w == float(DictGet(th.m[metric].warning_gt, Num(default_warning)))
             a == float(DictGet(th.m[metric].alert_gt, Num(default_alert)))
         IN  Pair(IF w.ok THEN w.v ELSE default_warning,
                  IF a.ok THEN a.v ELSE default_alert)
    ELSE Pair(default_warning, default_alert)

\* faulty variant: the configured pair is looked up under the scrap_rate key for every metric
GetThresholdsWrongKey(th, metric, default_warning, default_alert) ==
    IF th.kind = "dict" /\ th.m["scrap_rate"].kind = "dict"
    THEN LET w == float(DictGet(th.m["scrap_rate"].warning_gt, Num(default_warning)))
             a == float(DictGet(th.m["scrap_rate"].alert_gt, Num(default_alert)))
         IN  IF w.ok /\ a.ok THEN Pair(w.v, a.v)
             ELSE Pair(default_warning, default_alert)
    ELSE Pair(default_warning, default_alert)

_get_thresholds(th, metric, default_warning, default_alert) ==
    IF th.kind = "dict" /\ th.m[metric].kind = "dict"
    THEN LET w == float(DictGet(th.m[metric].warning_gt, Num(default_warning)))
             a == float(DictGet(th.m[metric].alert_gt, Num(default_alert)))
         IN  IF w.ok /\ a.ok THEN Pair(w.v, a.v)
             ELSE Pair(default_warning, default_alert)
    ELSE Pair(default_warning, default_alert)

\* faulty variant: the comparisons are not strict
LevelNotStrict(v, pair) ==
    IF v >= pair.alert_gt THEN "ALERT"
    ELSE IF v >= pair.warning_gt THEN "WARNING"
    ELSE "OK"

\* the if / elif / else chain shared by the three alert functions
Level(v, pair) ==
    IF v > pair.alert_gt THEN "ALERT"
    ELSE IF v > pair.warning_gt THEN "WARNING"
    ELSE "OK"

\* faulty variant: the level is that of the rounded value
AlertRecordLevelOfRounded(metric, v, pair) ==
    [metric |-> metric, value |-> RoundTo(v, 10),
     level |-> Level(RoundTo(v, 10), pair), thresholds |-> pair]

\* the record an alert function returns: the level of the value as passed,
\* the value rounded (4 decimals for the scrap rate, 1 for seconds)
AlertRecord(metric, v, pair) ==
    [metric |-> metric, value |-> RoundTo(v, 10), level |-> Level(v, pair),
     thresholds |-> pair]

alert_scrap_rate(scrap_rate, th) ==
    AlertRecord("scrap_rate", scrap_rate,
                _get_thresholds(th, "scrap_rate", SCRAP_WARNING_GT, SCRAP_ALERT_GT))

alert_long_downtime(downtime_sec, th) ==
    AlertRecord("downtime_event_sec", downtime_sec,
                _get_thresholds(th, "downtime_event_sec", DOWNTIME_WARNING_GT, DOWNTIME_ALERT_GT))

alert_cycle_time_p95(p95_cycle_time_sec, th) ==
    AlertRecord("cycle_time_p95_sec", p95_cycle_time_sec,
                _get_thresholds(th, "cycle_time_p95_sec", CYCLE_P95_WARNING_GT, CYCLE_P95_ALERT_GT))

----------------------------------------------------------------------------
(* config/loader.py *)

\* what can be at the config path
FileMissing == [kind |-> "missing"]
FileUnreadable == [kind |-> "unreadable"]       \* open() or the decoding fails
FileInvalidYaml == [kind |-> "invalid_yaml"]    \* yaml.safe_load raises
FileYaml(data) == [kind |-> "yaml", data |-> data]

Returned(x) == [raised |-> "none", value |-> x]
Raised(exc) == [raised |-> exc, value |-> PyNone]

\* faulty variant: the isinstance check of the parsed content is missing
LoadThresholdsNoTypeCheck(file) ==
    IF file.kind = "missing" THEN Raised("ConfigLoadError")
    ELSE IF file.kind \in {"unreadable", "invalid_yaml"} THEN Raised("ConfigLoadError")
    ELSE Returned(file.data)

\* faulty variant: a parse failure escapes as the YAML library's own exception
LoadThresholdsLeaksParseError(file) ==
    IF file.kind = "missing" THEN Raised("ConfigLoadError")
    ELSE IF file.kind = "unreadable" THEN Raised("OSError")
    ELSE IF file.kind = "invalid_yaml" THEN Raised("YAMLError")
    ELSE IF file.data.kind # "dict" THEN Raised("ConfigLoadError")
    ELSE Returned(file.data)

load_thresholds(file) ==
    IF file.kind = "missing" THEN Raised("ConfigLoadError")
    ELSE IF file.kind \in {"unreadable", "invalid_yaml"} THEN Raised("ConfigLoadError")
    ELSE IF file.data.kind # "dict" THEN Raised("ConfigLoadError")
    ELSE Returned(file.data)

----------------------------------------------------------------------------
(* cli.py: _safe_load_thresholds *)

\* try: return load_thresholds()  except ConfigLoadError: return None
_safe_load_thresholds(file) ==
    LET r == load_thresholds(file)
    IN  IF r.raised = "ConfigLoadError" THEN Returned(PyNone) ELSE r

----------------------------------------------------------------------------
(* The alert specification: a config file is on disk; a caller loads it    *)
(* (or not) and classifies metric values with the thresholds it holds.     *)

\* values of warning_gt / alert_gt found in a config entry
WarningSamples == {Absent, Num(8100), Num(30000), NumStr(12000), BadStr, Null}
AlertSamples == {Absent, Num(15000), NumStr(30000), BadStr, Null}

EntrySamples ==
    {NoEntry, ScalarEntry} \cup
    {DictEntry(w, a) : w \in WarningSamples, a \in AlertSamples}

\* the entries the other metrics carry while one metric's entry varies
OtherEntrySamples == {NoEntry, DictEntry(Num(100), Num(200))}

MappingSamples ==
    {[m \in METRICS |-> IF m = p THEN e ELSE o] :
        p \in METRICS, e \in EntrySamples, o \in OtherEntrySamples}

YamlDocSamples ==
    {PyDict(m) : m \in MappingSamples} \cup
    {[kind |-> "list"], [kind |-> "null"], [kind |-> "scalar"]}

ConfigFileSamples ==
    {FileMissing, FileUnreadable, FileInvalidYaml} \cup
    {FileYaml(d) : d \in YamlDocSamples}

\* metric values handed to the alert functions: each default and sample
\* threshold, a value just above it, and values that round onto a threshold
ValueSamples ==
    {0, 100, 200, 8000, 8004, 8100, 8200, 10000, 10100, 12000, 12004, 12100,
     15000, 15100, 30000, 30004, 30100, 180000, 180100}

InitAlerts ==
    /\ config_file \in ConfigFileSamples
    /\ thresholds = PyNone
    /\ events = <<>>
    /\ quality = <<>>
    /\ result = NoResult
    /\ reports = NoReports
    /\ clock = 0
    /\ data_files = NoFiles
    /\ runner = Idle
    /\ invocations = 0
    /\ writers = NoWriters

\* a direct call of load_thresholds(path), as the loader's tests make it
LoadThresholds ==
    /\ result' = [op |-> "load_thresholds", ret |-> load_thresholds(config_file)]
    /\ UNCHANGED <<config_file, thresholds, events, quality, reports, clock, data_files, runner, invocations,
                   writers>>

\* thresholds = _safe_load_thresholds()
SafeLoadThresholds ==
    /\ LET r == _safe_load_thresholds(config_file)
       IN  /\ result' = [op |-> "_safe_load_thresholds", ret |-> r]
           /\ thresholds' = IF r.raised = "none" THEN r.value ELSE thresholds
    /\ UNCHANGED <<config_file, events, quality, reports, clock, data_files, runner, invocations,
                   writers>>

AlertScrapRate ==
    /\ \E v \in ValueSamples :
          result' = [op |-> "alert_scrap_rate", arg |-> v, th |-> thresholds,
                     ret |-> alert_scrap_rate(v, thresholds)]
    /\ UNCHANGED <<config_file, thresholds, events, quality, reports, clock, data_files, runner, invocations,
                   writers>>

AlertLongDowntime ==
    /\ \E v \in ValueSamples :
          result' = [op |-> "alert_long_downtime", arg |-> v, th |-> thresholds,
                     ret |-> alert_long_downtime(v, thresholds)]
    /\ UNCHANGED <<config_file, thresholds, events, quality, reports, clock, data_files, runner, invocations,
                   writers>>

AlertCycleTimeP95 ==
    /\ \E v \in ValueSamples :
          result' = [op |-> "alert_cycle_time_p95", arg |-> v, th |-> thresholds,
                     ret |-> alert_cycle_time_p95(v, thresholds)]
    /\ UNCHANGED <<config_file, thresholds, events, quality, reports, clock, data_files, runner, invocations,
                   writers>>

NextAlerts ==
    \/ LoadThresholds
    \/ SafeLoadThresholds
    \/ AlertScrapRate
    \/ AlertLongDowntime
    \/ AlertCycleTimeP95

SpecAlerts == InitAlerts /\ [][NextAlerts]_vars

----------------------------------------------------------------------------
(* Claims about the alert classifier and the threshold loader *)

AlertOps == {"alert_scrap_rate", "alert_long_downtime", "alert_cycle_time_p95"}

IsAlertCall == result.op \in AlertOps

\* the config entry of the metric the last alert call classified
EntryOfCall == result.th.m[result.ret.metric]

\* C1: each alert function returns ALERT if v > alert_gt, otherwise WARNING if
\* v > warning_gt, otherwise OK, for the pair it resolved; the comparisons are
\* strict, so a value equal to alert_gt is not ALERT and a value equal to
\* warning_gt is not WARNING (it is OK unless it is above alert_gt).
C1_LevelByStrictComparison ==
    IsAlertCall =>
        LET v == result.arg
            p == result.ret.thresholds
            level == result.ret.level
        IN  /\ level \in {"OK", "WARNING", "ALERT"}
            /\ (level = "ALERT") <=> (v > p.alert_gt)
            /\ (level = "WARNING") <=> (~(v > p.alert_gt) /\ v > p.warning_gt)
            /\ (level = "OK") <=> (~(v > p.alert_gt) /\ ~(v > p.warning_gt))
            /\ (v = p.alert_gt) => level # "ALERT"
            /\ (v = p.warning_gt) => level # "WARNING"
            /\ (v = p.warning_gt /\ p.warning_gt <= p.alert_gt) => level = "OK"

\* C1 witness: a value exactly on the warning threshold of a configured pair
\* was classified OK, by the downtime alert
C1_Witness ==
    /\ result.op = "alert_long_downtime"
    /\ result.th.kind = "dict"
    /\ result.ret.thresholds = Pair(30000, 180000)
    /\ result.arg = 30000
    /\ result.ret.level = "OK"

\* C2: with no threshold source, or a source without a mapping entry for the
\* metric, the pair used is the metric's hardcoded default; with an entry
\* whose warning_gt and alert_gt are both numbers, exactly those are used.
C2_ThresholdResolution ==
    IsAlertCall =>
        LET m == result.ret.metric
            used == result.ret.thresholds
        IN  /\ result.th.kind = "none" => used = DefaultPair(m)
            /\ (result.th.kind = "dict" /\ EntryOfCall.kind # "dict")
                  => used = DefaultPair(m)
            /\ (result.th.kind = "dict" /\ EntryOfCall.kind = "dict"
                  /\ EntryOfCall.warning_gt.kind = "num"
                  /\ EntryOfCall.alert_gt.kind = "num")
                  => used = Pair(EntryOfCall.warning_gt.v, EntryOfCall.alert_gt.v)

\* C2 witness: the cycle-time alert used its own configured pair while the
\* scrap_rate entry of the same source holds another pair
C2_Witness ==
    /\ result.op = "alert_cycle_time_p95"
    /\ result.th.kind = "dict"
    /\ result.th.m["scrap_rate"] = DictEntry(Num(100), Num(200))
    /\ EntryOfCall = DictEntry(Num(8100), Num(15000))
    /\ result.ret.thresholds = Pair(8100, 15000)

NonNumeric(x) == x.kind \in {"str", "null"}

\* C3: an entry with a non-numeric warning_gt or alert_gt resolves, without an
\* error, to the default pair of the metric (both values), and the value is
\* classified against the defaults.
C3_NonNumericFallsBack ==
    (/\ IsAlertCall
     /\ result.th.kind = "dict"
     /\ EntryOfCall.kind = "dict"
     /\ (NonNumeric(EntryOfCall.warning_gt) \/ NonNumeric(EntryOfCall.alert_gt)))
    => /\ result.ret.thresholds = DefaultPair(result.ret.metric)
       /\ result.ret.level = Level(result.arg, DefaultPair(result.ret.metric))

\* C3 witness: warning_gt is a bad string and alert_gt a valid number; the
\* scrap alert used the default pair and raised a WARNING by it
C3_Witness ==
    /\ result.op = "alert_scrap_rate"
    /\ result.th.kind = "dict"
    /\ EntryOfCall = DictEntry(BadStr, Num(15000))
    /\ result.arg = 8100
    /\ result.ret.thresholds = Pair(8000, 10000)
    /\ result.ret.level = "WARNING"

\* C4: load_thresholds returns the parsed mapping when the file holds a YAML
\* mapping, and raises ConfigLoadError, returning nothing, when the file is
\* missing, cannot be parsed, or parses to something that is not a mapping.
C4_LoadThresholdsOutcome ==
    result.op = "load_thresholds" =>
        /\ (config_file.kind = "yaml" /\ config_file.data.kind = "dict")
              => result.ret = Returned(config_file.data)
        /\ (\/ config_file.kind \in {"missing", "invalid_yaml"}
            \/ (config_file.kind = "yaml" /\ config_file.data.kind # "dict"))
              => result.ret = Raised("ConfigLoadError")

\* C4 witness: a file holding a YAML list was refused with ConfigLoadError
C4_Witness ==
    /\ result.op = "load_thresholds"
    /\ config_file = FileYaml([kind |-> "list"])
    /\ result.ret.raised = "ConfigLoadError"

----------------------------------------------------------------------------
(* Tables: a table is a sequence of rows, a row a record of its columns.   *)
(* An events row has ts, cell_id, robot_id, job_id, program_id, event_type *)
(* and error_code; a quality row has job_id, cell_id, robot_id, program_id *)
(* and result.  A column read from CSV holds strings or NA.                *)

NA == "<NA>"    \* a missing cell (NaN / pd.NA)
NaT == -1       \* a missing timestamp; every parsed timestamp is >= 0

\* The timestamp strings of the model and the instant each denotes, in ticks
\* of 1/100 s after 2024-01-01T00:00:00Z.  Two strings denote the same
\* instant when they differ only in the UTC offset they are written in.
TsTable ==
    [s \in {"2024-01-01T00:00:00+00:00", "2024-01-01T01:00:00+01:00",
            "2024-01-01T00:00:50+00:00", "2024-01-01T00:01:30+00:00",
            "2024-01-01T00:01:40+00:00", "2024-01-01T01:00:50+00:00",
            "2024-01-01T01:01:30+00:00", "2024-01-01T00:01:40.040000+00:00",
            "2024-01-01 00:00:00+00:00", "2024-01-01 00:00:50+00:00",
            "2024-01-01 00:01:30+00:00", "2024-01-01 00:01:40+00:00",
            "2024-01-01 01:00:50+00:00", "2024-01-01 01:01:30+00:00"} |->
        CASE s = "2024-01-01T00:00:00+00:00" -> 0
          [] s = "2024-01-01T01:00:00+01:00" -> 0
          [] s = "2024-01-01T00:00:50+00:00" -> Seconds(50)
          [] s = "2024-01-01T00:01:30+00:00" -> Seconds(90)
          [] s = "2024-01-01T00:01:40+00:00" -> Seconds(100)
          [] s = "2024-01-01T01:00:50+00:00" -> Seconds(3650)
          [] s = "2024-01-01T01:01:30+00:00" -> Seconds(3690)
          [] s = "2024-01-01T00:01:40.040000+00:00" -> Seconds(100) + 4
          [] s = "2024-01-01 00:00:00+00:00" -> 0
          [] s = "2024-01-01 00:00:50+00:00" -> Seconds(50)
          [] s = "2024-01-01 00:01:30+00:00" -> Seconds(90)
          [] s = "2024-01-01 00:01:40+00:00" -> Seconds(100)
          [] s = "2024-01-01 01:00:50+00:00" -> Seconds(3650)
          [] s = "2024-01-01 01:01:30+00:00" -> Seconds(3690)]

\* pd.to_datetime(x, errors="coerce", utc=True) on one cell: the instant in
\* UTC, or NaT for a missing or unparseable cell
to_datetime(s) == IF s \in DOMAIN TsTable THEN TsTable[s] ELSE NaT

\* df["ts"] = pd.to_datetime(df["ts"], errors="coerce", utc=True)
ParseTsColumn(df) == [i \in 1..Len(df) |-> [df[i] EXCEPT !.ts = to_datetime(df[i].ts)]]

Rows(df) == {df[i] : i \in 1..Len(df)}

\* the tables of at most n rows taken from a set of rows
TablesOver(rows, n) == UNION {[1..k -> rows] : k \in 0..n}

SetMin(S) == CHOOSE x \in S : \A y \in S : x <= y
SetMax(S) == CHOOSE x \in S : \A y \in S : x >= y

RECURSIVE SetSum(_, _)
\* the sum of f over the set K
SetSum(f, K) ==
    IF K = {} THEN 0
    ELSE LET k == CHOOSE x \in K : TRUE IN f[k] + SetSum(f, K \ {k})

RECURSIVE SortedValues(_, _)
\* the values of f over K in ascending order, as a sequence
SortedValues(f, K) ==
    IF K = {} THEN <<>>
    ELSE LET k == CHOOSE x \in K : \A y \in K : f[x] <= f[y]
         IN  <<f[k]>> \o SortedValues(f, K \ {k})

\* n / d rounded to an integer, ties to even (d > 0)
RoundDiv(n, d) ==
    LET lo == n \div d
        r  == n % d
    IN  IF 2 * r < d THEN lo
        ELSE IF 2 * r > d THEN lo + 1
        ELSE IF lo % 2 = 0 THEN lo ELSE lo + 1

\* a file of data/reports: <kind>_report_<stamp>.json or <kind>_report_latest.json
StampedReport(kind, stamp) == <<kind, "stamped", stamp>>

\* faulty variant: one latest file shared by all kinds
LatestReportShared(kind) == <<"any", "latest", 0>>
LatestReport(kind) == <<kind, "latest", 0>>

\* path.write_text(content): the file is created or overwritten
WriteText(files, name, content) ==
    [f \in DOMAIN files \cup {name} |-> IF f = name THEN content ELSE files[f]]

\* an optional number: None, or a value
None == [null |-> TRUE, v |-> 0]
Some(x) == [null |-> FALSE, v |-> x]

----------------------------------------------------------------------------
(* report/kpi.py *)

SANITY_MAX_SEC == 3600

\* key = ["cell_id", "robot_id", "job_id", "program_id"]
JobKey(r) == <<r.cell_id, r.robot_id, r.job_id, r.program_id>>

\* groupby(key) leaves out the rows with a missing key column
HasJobKey(r) ==
    r.cell_id # NA /\ r.robot_id # NA /\ r.job_id # NA /\ r.program_id # NA

\* df[df["event_type"] == type].groupby(key)["ts"]: the groups, and the
\* timestamps of a group that min() / max() look at (NaT is skipped)
GroupsOf(df, type) ==
    {JobKey(r) : r \in {x \in Rows(df) : x.event_type = type /\ HasJobKey(x)}}

GroupTs(df, type, k) ==
    {r.ts : r \in {x \in Rows(df) : x.event_type = type /\ HasJobKey(x)
                                     /\ JobKey(x) = k /\ x.ts # NaT}}

\* (last - first).dt.total_seconds().dropna(): one value for every group that
\* has a timestamp of both event types
SpanGroups(df, first_type, last_type) ==
    {k \in GroupsOf(df, first_type) \cap GroupsOf(df, last_type) :
        GroupTs(df, first_type, k) # {} /\ GroupTs(df, last_type, k) # {}}

\* faulty variant: the latest opening event is taken
SpanFromLatestOpening(df, first_type, last_type, k) ==
    SetMax(GroupTs(df, last_type, k)) - SetMax(GroupTs(df, first_type, k))

\* ends - starts: max() of the closing type minus min() of the opening type
Span(df, first_type, last_type, k) ==
    SetMax(GroupTs(df, last_type, k)) - SetMin(GroupTs(df, first_type, k))

\* faulty variant: the sanity filter of the downtime analyzer, 0 < x <= 3600
SaneOpenAtZero(x) == x > 0 /\ x <= Seconds(SANITY_MAX_SEC)

\* faulty variant: the upper bound is missing
SaneNoUpperBound(x) == x >= 0

\* cycle[(cycle >= 0) & (cycle <= 3600)]
Sane(x) == x >= 0 /\ x <= Seconds(SANITY_MAX_SEC)

SaneGroups(df, first_type, last_type) ==
    {k \in SpanGroups(df, first_type, last_type) :
        Sane(Span(df, first_type, last_type, k))}

\* Series.quantile(q), q = pct / 100, linear interpolation, rounded to 2 places
Quantile(xs, pct) ==
    LET h    == (Len(xs) - 1) * pct
        lo   == (h \div 100) + 1
        frac == h % 100
    IN  IF frac = 0 THEN xs[lo]
        ELSE RoundDiv(xs[lo] * 100 + frac * (xs[lo + 1] - xs[lo]), 100)

\* faulty variant: the statistics of an empty sample are 0
SummaryZeroWhenEmpty(df, first_type, last_type) ==
    LET K  == SaneGroups(df, first_type, last_type)
        f  == [k \in K |-> Span(df, first_type, last_type, k)]
        xs == SortedValues(f, K)
        n  == Cardinality(K)
    IN  [count |-> n,
         mean |-> IF n # 0 THEN Some(RoundDiv(SetSum(f, K), n)) ELSE Some(0),
         p50 |-> IF n # 0 THEN Some(Quantile(xs, 50)) ELSE Some(0),
         p95 |-> IF n # 0 THEN Some(Quantile(xs, 95)) ELSE Some(0)]

\* the {count, mean, p50, p95} block of one distribution
Summary(df, first_type, last_type) ==
    LET K  == SaneGroups(df, first_type, last_type)
        f  == [k \in K |-> Span(df, first_type, last_type, k)]
        xs == SortedValues(f, K)
        n  == Cardinality(K)
    IN  [count |-> n,
         mean |-> IF n # 0 THEN Some(RoundDiv(SetSum(f, K), n)) ELSE None,
         p50 |-> IF n # 0 THEN Some(Quantile(xs, 50)) ELSE None,
         p95 |-> IF n # 0 THEN Some(Quantile(xs, 95)) ELSE None]

\* str.upper() on the result strings of the model
Upper(s) ==
    CASE s = "nok" -> "NOK"
      [] s = "Nok" -> "NOK"
      [] s = "ok" -> "OK"
      [] OTHER -> s

\* faulty variant: the result column is compared without uppercasing
NokCountCaseSensitive(q) ==
    Cardinality({i \in 1..Len(q) : q[i].result = "NOK"})

\* int((q["result"].str.upper() == "NOK").sum())
NokCount(q) ==
    Cardinality({i \in 1..Len(q) : q[i].result # NA /\ Upper(q[i].result) = "NOK"})

\* faulty variant: the guard against an empty quality table is missing (the division
\* fails and no scrap rate comes out)
ScrapRateUnguarded(nok_jobs, total_jobs) ==
    IF total_jobs # 0 THEN RoundDiv(nok_jobs * 10000, total_jobs) * 10 ELSE NaT

\* round((nok_jobs / total_jobs) if total_jobs else 0.0, 4), in units of 1e-5
ScrapRate(nok_jobs, total_jobs) ==
    IF total_jobs # 0 THEN RoundDiv(nok_jobs * 10000, total_jobs) * 10 ELSE 0

TOP_ERROR_CODES == 10

\* faulty variant: the codes of all event types are counted
ErrorRowIndexesAnyType(df) ==
    {i \in 1..Len(df) : df[i].error_code # NA}

\* df[df["event_type"] == "ERROR"]["error_code"].dropna()
ErrorRowIndexes(df) ==
    {i \in 1..Len(df) : df[i].event_type = "ERROR" /\ df[i].error_code # NA}

ErrorCodeCount(df, code) ==
    Cardinality({i \in ErrorRowIndexes(df) : df[i].error_code = code})

FirstSeen(df, code) ==
    SetMin({i \in ErrorRowIndexes(df) : df[i].error_code = code})

RECURSIVE CountsDescending(_, _)
\* value_counts(): <<code, count>> pairs, most frequent first; equal counts
\* are taken in the order the codes first appear
CountsDescending(df, codes) ==
    IF codes = {} THEN <<>>
    ELSE LET c == CHOOSE x \in codes : \A y \in codes :
                     \/ ErrorCodeCount(df, x) > ErrorCodeCount(df, y)
                     \/ /\ ErrorCodeCount(df, x) = ErrorCodeCount(df, y)
                        /\ FirstSeen(df, x) <= FirstSeen(df, y)
         IN  <<[code |-> c, count |-> ErrorCodeCount(df, c)]>>
                 \o CountsDescending(df, codes \ {c})

\* .head(10)
HeadN(xs, n) == SubSeq(xs, 1, IF Len(xs) < n THEN Len(xs) ELSE n)

TopErrorCodes(df) ==
    HeadN(CountsDescending(df, {df[i].error_code : i \in ErrorRowIndexes(df)}),
         TOP_ERROR_CODES)

compute_kpis(events_table, quality_table) ==
    LET df == ParseTsColumn(events_table)
        total_jobs == Len(quality_table)
        nok_jobs == NokCount(quality_table)
    IN  [jobs_total |-> total_jobs,
         jobs_nok |-> nok_jobs,
         scrap_rate |-> ScrapRate(nok_jobs, total_jobs),
         cycle_time_sec |-> Summary(df, "START_CYCLE", "END_CYCLE"),
         arc_on_time_sec |-> Summary(df, "ARC_ON", "ARC_OFF"),
         top_error_codes |-> TopErrorCodes(df)]

\* faulty variant: the result column is uppercased in the caller's table
ComputeKpisCallInPlace(events_table, quality_table) ==
    [ret |-> compute_kpis(events_table, quality_table),
     events |-> events_table,
     quality |-> [i \in 1..Len(quality_table) |->
                    [quality_table[i] EXCEPT
                        !.result = IF @ = NA THEN NA ELSE Upper(@)]]]

\* one call of compute_kpis: what it returns and what the caller's two
\* tables hold afterwards.  The function works on events.copy() and
\* quality.copy() and reads nothing but its arguments.
ComputeKpisCall(events_table, quality_table) ==
    [ret |-> compute_kpis(events_table, quality_table),
     events |-> events_table,
     quality |-> quality_table]

----------------------------------------------------------------------------
(* cli.py: _max_downtime_event_seconds *)

\* df.dropna(subset=["ts", "cell_id", "robot_id", "event_type"]) and
\* df[df["event_type"].isin(["ERROR", "RESET"])], rows in input order
ErFrame(events_table) ==
    SelectSeq(ParseTsColumn(events_table),
              LAMBDA r : /\ r.ts # NaT /\ r.cell_id # NA /\ r.robot_id # NA
                         /\ r.event_type \in {"ERROR", "RESET"})

Injections(n) == {p \in [1..n -> 1..n] : \A i, j \in 1..n : p[i] = p[j] => i = j}

\* sort_values("ts") with the default, unstable sort: every ordering of the
\* rows by ascending ts is a possible outcome; rows of equal ts may come out
\* in any order
TsSortedOrders(frame) ==
    {er \in {[i \in 1..Len(frame) |-> frame[p[i]]] : p \in Injections(Len(frame))} :
        \A i, j \in 1..Len(er) : i < j => er[i].ts <= er[j].ts}

StreamKey(r) == <<r.cell_id, r.robot_id>>

StreamKeys(er) == {StreamKey(er[i]) : i \in 1..Len(er)}

\* faulty variant: the frame is not split by (cell_id, robot_id)
StreamFrameUngrouped(er, key) == er

\* one group g of er.groupby(["cell_id", "robot_id"]), in the order of er
StreamFrame(er, key) == SelectSeq(er, LAMBDA r : StreamKey(r) = key)

\* faulty variant: a RESET is paired with the last ERROR before it only
NextResetConsumed(g, i) ==
    LET js == {j \in (i + 1)..Len(g) : g[j].event_type = "RESET"}
    IN  IF js = {} THEN 0
        ELSE IF \E k \in (i + 1)..SetMin(js) : g[k].event_type = "ERROR" THEN 0
        ELSE SetMin(js)

\* after = g.iloc[i + 1:]; reset = after[after["event_type"] == "RESET"];
\* reset.iloc[0]: the position of the first RESET after row i, 0 if none
NextReset(g, i) ==
    LET js == {j \in (i + 1)..Len(g) : g[j].event_type = "RESET"}
    IN  IF js = {} THEN 0 ELSE SetMin(js)

\* faulty variant: an interval of more than an hour is accepted
AcceptedNoUpperBound(dt) == 0 < dt

\* 0 < dt <= 3600
Accepted(dt) == 0 < dt /\ dt <= Seconds(SANITY_MAX_SEC)

RECURSIVE ScanStream(_, _, _)
\* for i, row in g.iterrows(): ... with max_dt carried along
ScanStream(g, i, max_dt) ==
    IF i > Len(g) THEN max_dt
    ELSE IF g[i].event_type # "ERROR" THEN ScanStream(g, i + 1, max_dt)
    ELSE IF NextReset(g, i) = 0 THEN ScanStream(g, i + 1, max_dt)
    ELSE LET dt == g[NextReset(g, i)].ts - g[i].ts
         IN  IF Accepted(dt) /\ dt > max_dt
             THEN ScanStream(g, i + 1, dt)
             ELSE ScanStream(g, i + 1, max_dt)

RECURSIVE ScanStreams(_, _, _)
\* for (_, _), g in er.groupby(["cell_id", "robot_id"]): ... ; max_dt only
\* grows, so the order in which the groups are visited does not matter
ScanStreams(er, keys, max_dt) ==
    IF keys = {} THEN max_dt
    ELSE LET key == CHOOSE k \in keys : TRUE
         IN  ScanStreams(er, keys \ {key}, ScanStream(StreamFrame(er, key), 1, max_dt))

\* er is the frame as sort_values("ts") left it, one of TsSortedOrders
_max_downtime_event_seconds(er) ==
    IF er = <<>> THEN 0 ELSE ScanStreams(er, StreamKeys(er), 0)

----------------------------------------------------------------------------
(* Input rows *)

EventRow(ts, cell, robot, job, type, code) ==
    [ts |-> ts, cell_id |-> cell, robot_id |-> robot, job_id |-> job,
     program_id |-> "P001", event_type |-> type, error_code |-> code]

QualityRow(job, cell, robot, res) ==
    [job_id |-> job, cell_id |-> cell, robot_id |-> robot,
     program_id |-> "P001", result |-> res]

T0 == "2024-01-01T00:00:00+00:00"
T0plus1h == "2024-01-01T01:00:00+01:00"
T50 == "2024-01-01T00:00:50+00:00"
T90 == "2024-01-01T00:01:30+00:00"
T100 == "2024-01-01T00:01:40+00:00"
T100_04 == "2024-01-01T00:01:40.040000+00:00"
T3650 == "2024-01-01T01:00:50+00:00"
T3690 == "2024-01-01T01:01:30+00:00"
TBad == "not-a-timestamp"

----------------------------------------------------------------------------
(* The KPI specification: the two tables are read row by row, then         *)
(* compute_kpis is applied to them.                                        *)

MaxKpiRows == 3
MaxKpiCalls == 2

\* cycles of 0 s, 90 s, 3600 s (90 -> 3690), 3690 s and negative ones, in two
\* job groups; arcs of 90 s and 0 s; one error; one row with an unparseable timestamp
KpiEventRows ==
    {EventRow(ts, "C01", "R01", job, type, NA) :
        ts \in {T0, T90, T3690}, job \in {"J1", "J2"},
        type \in {"START_CYCLE", "END_CYCLE"}} \cup
    {EventRow(T0, "C01", "R01", "J1", "ARC_ON", NA),
     EventRow(T90, "C01", "R01", "J1", "ARC_ON", NA),
     EventRow(T90, "C01", "R01", "J1", "ARC_OFF", NA),
     EventRow(T50, "C01", "R01", "J1", "ERROR", "CDD1"),
     EventRow(TBad, "C01", "R01", "J1", "START_CYCLE", NA)}

KpiQualityRows ==
    {QualityRow("J1", "C01", "R01", res) : res \in {"OK", "NOK", "nok", NA}}

InitKpi ==
    /\ config_file = FileMissing
    /\ thresholds = PyNone
    /\ events = <<>>
    /\ quality = <<>>
    /\ result = NoResult
    /\ reports = NoReports
    /\ clock = 0
    /\ data_files = NoFiles
    /\ runner = Idle
    /\ invocations = 0
    /\ writers = NoWriters

\* one more row of the events table
ReadKpiEventRow ==
    /\ result = NoResult
    /\ Len(events) + Len(quality) < MaxKpiRows
    /\ \E r \in KpiEventRows : events' = Append(events, r)
    /\ UNCHANGED <<config_file, thresholds, quality, result, reports, clock, data_files, runner, invocations,
                   writers>>

\* one more row of the quality table
ReadKpiQualityRow ==
    /\ result = NoResult
    /\ Len(events) + Len(quality) < MaxKpiRows
    /\ \E r \in KpiQualityRows : quality' = Append(quality, r)
    /\ UNCHANGED <<config_file, thresholds, events, result, reports, clock, data_files, runner, invocations,
                   writers>>

\* kpis = compute_kpis(events, quality), called again and again on the same
\* two tables: the result keeps what the first call returned and what the
\* tables held before it
ComputeKpis ==
    /\ result.op \in {"none", "compute_kpis"}
    /\ (result.op = "compute_kpis" => result.calls < MaxKpiCalls)
    /\ LET call == ComputeKpisCall(events, quality)
           again == result.op = "compute_kpis"
       IN  /\ result' = [op |-> "compute_kpis",
                         ret |-> call.ret,
                         calls |-> IF again THEN result.calls + 1 ELSE 1,
                         first |-> IF again THEN result.first ELSE call.ret,
                         args |-> IF again THEN result.args ELSE <<events, quality>>]
           /\ events' = call.events
           /\ quality' = call.quality
    /\ UNCHANGED <<config_file, thresholds, reports, clock, data_files, runner, invocations,
                   writers>>

NextKpi ==
    \/ ReadKpiEventRow
    \/ ReadKpiQualityRow
    \/ ComputeKpis

SpecKpi == InitKpi /\ [][NextKpi]_vars

----------------------------------------------------------------------------
(* Claims about compute_kpis *)

\* the quality rows whose result reads NOK in any letter case
C6_NokRows == {i \in 1..Len(quality) : quality[i].result \in {"NOK", "nok", "Nok"}}

\* C6: compute_kpis reports jobs_total = the number of quality rows, jobs_nok =
\* the number of rows whose result is NOK after uppercasing, and scrap_rate =
\* jobs_nok / jobs_total rounded to 4 decimals; with an empty quality table
\* scrap_rate is exactly 0.0; so 0 <= jobs_nok <= jobs_total and
\* 0 <= scrap_rate <= 1.
C6_ScrapRate ==
    result.op = "compute_kpis" =>
        LET k == result.ret
        IN  /\ k.jobs_total = Len(quality)
            /\ k.jobs_nok = Cardinality(C6_NokRows)
            /\ Len(quality) = 0 => k.scrap_rate = 0
            /\ Len(quality) > 0 =>
                  \* a multiple of 1e-4 within half of 1e-4 of the quotient
                  /\ k.scrap_rate % 10 = 0
                  /\ k.scrap_rate * k.jobs_total - k.jobs_nok * 100000 <= 5 * k.jobs_total
                  /\ k.jobs_nok * 100000 - k.scrap_rate * k.jobs_total <= 5 * k.jobs_total
            /\ 0 <= k.jobs_nok /\ k.jobs_nok <= k.jobs_total
            /\ 0 <= k.scrap_rate /\ k.scrap_rate <= 100000

\* C6 witness: three quality rows, one of them "nok" in lower case: one NOK
\* job of three and a scrap rate of 0.3333
C6_Witness ==
    /\ result.op = "compute_kpis"
    /\ Len(quality) = 3
    /\ \E i \in 1..3 : quality[i].result = "nok"
    /\ result.ret.jobs_nok = 1
    /\ result.ret.scrap_rate = 33330

\* the job groups of the events table and the cycle of each: the latest
\* END_CYCLE minus the earliest START_CYCLE
C7_Stamps(k, type) ==
    {to_datetime(events[i].ts) : i \in {j \in 1..Len(events) :
        events[j].event_type = type /\ JobKey(events[j]) = k}} \ {NaT}

C7_Timed ==
    {k \in {JobKey(events[i]) : i \in 1..Len(events)} :
        C7_Stamps(k, "START_CYCLE") # {} /\ C7_Stamps(k, "END_CYCLE") # {}}

C7_Cycle(k) == SetMax(C7_Stamps(k, "END_CYCLE")) - SetMin(C7_Stamps(k, "START_CYCLE"))

\* C7 as claimed: the groups counted in cycle_time_sec.count are those whose
\* cycle lies in (0, 3600] seconds; a cycle of 0 seconds is not counted.
C7_Original_OpenAtZero ==
    result.op = "compute_kpis" =>
        result.ret.cycle_time_sec.count =
            Cardinality({k \in C7_Timed : 0 < C7_Cycle(k) /\ C7_Cycle(k) <= 360000})

\* C7 as amended: the groups counted in cycle_time_sec.count are those whose
\* cycle lies in [0, 3600] seconds: a negative cycle or one above 3600 s is
\* never counted, a cycle of 0 s, of 90 s and of exactly 3600 s is.
C7_CycleSanityClosed ==
    result.op = "compute_kpis" =>
        result.ret.cycle_time_sec.count =
            Cardinality({k \in C7_Timed : 0 <= C7_Cycle(k) /\ C7_Cycle(k) <= 360000})

\* C7 witness: the only timed group has START_CYCLE and END_CYCLE at the same
\* instant, a cycle of 0 s, and it is counted
C7_Witness ==
    /\ result.op = "compute_kpis"
    /\ \E k \in C7_Timed : C7_Cycle(k) = 0
    /\ result.ret.cycle_time_sec.count = 1
    /\ Cardinality(C7_Timed) = 1

C22_Groups ==
    {JobKey(events[i]) : i \in {j \in 1..Len(events) : HasJobKey(events[j])}}

C22_Stamps(k, type) ==
    {to_datetime(events[i].ts) : i \in {j \in 1..Len(events) :
        events[j].event_type = type /\ JobKey(events[j]) = k}} \ {NaT}

C22_HoldsBoth(opening, closing) ==
    {k \in C22_Groups :
        \A type \in {opening, closing} :
            \E i \in 1..Len(events) :
                events[i].event_type = type /\ JobKey(events[i]) = k}

C22_Sample(k, opening, closing) ==
    SetMax(C22_Stamps(k, closing)) - SetMin(C22_Stamps(k, opening))

C22_Samples(opening, closing) ==
    {k \in C22_Groups :
        /\ C22_Stamps(k, opening) # {}
        /\ C22_Stamps(k, closing) # {}
        /\ 0 <= C22_Sample(k, opening, closing)
        /\ C22_Sample(k, opening, closing) <= Seconds(SANITY_MAX_SEC)}

C22_SummaryOf(summary, opening, closing) ==
    LET K == C22_Samples(opening, closing)
        f == [k \in K |-> C22_Sample(k, opening, closing)]
    IN  /\ summary.count = Cardinality(K)
        /\ summary.count <= Cardinality(C22_HoldsBoth(opening, closing))
        /\ K # {} => summary.mean = Some(RoundDiv(SetSum(f, K), Cardinality(K)))
        /\ \A k \in K : K = {k} => summary.p50 = Some(f[k]) /\ summary.p95 = Some(f[k])

\* C22: cycle_time_sec summarises one sample per job group, the group's
\* latest END_CYCLE minus its earliest START_CYCLE (within the sanity
\* bounds), also when the group has several of either; a group without a
\* START_CYCLE or without an END_CYCLE gives no sample, so count is at most
\* the number of groups holding both types. arc_on_time_sec is formed the
\* same way from ARC_ON and ARC_OFF.
C22_OneSamplePerGroup ==
    result.op = "compute_kpis" =>
        /\ C22_SummaryOf(result.ret.cycle_time_sec, "START_CYCLE", "END_CYCLE")
        /\ C22_SummaryOf(result.ret.arc_on_time_sec, "ARC_ON", "ARC_OFF")

\* C22 witness: one job with START_CYCLE at 0 s and at 90 s and END_CYCLE at
\* 90 s: one sample of 90 s, not of 0 s
C22_Witness ==
    /\ result.op = "compute_kpis"
    /\ Len(events) = 3
    /\ \E k \in C22_Groups :
          /\ C22_Stamps(k, "START_CYCLE") = {0, Seconds(90)}
          /\ C22_Stamps(k, "END_CYCLE") = {Seconds(90)}
    /\ result.ret.cycle_time_sec.count = 1
    /\ result.ret.cycle_time_sec.mean = Some(Seconds(90))

\* the four entries of a distribution summary as the JSON values they are
\* written as: count is int(x.shape[0]), always a number
C26_Entries(summary) ==
    [count |-> Some(summary.count), mean |-> summary.mean,
     p50 |-> summary.p50, p95 |-> summary.p95]

C26_Distributions ==
    {<<"cycle_time_sec", "START_CYCLE", "END_CYCLE">>,
     <<"arc_on_time_sec", "ARC_ON", "ARC_OFF">>}

\* C26 as claimed: when no group yields an accepted sample, count, mean, p50
\* and p95 of the summary are all null.
C26_Original_AllFourNull ==
    result.op = "compute_kpis" =>
        \A d \in C26_Distributions :
            C22_Samples(d[2], d[3]) = {} =>
                \A f \in {"count", "mean", "p50", "p95"} :
                    C26_Entries(result.ret[d[1]])[f] = None

\* C26 as amended: when no group yields an accepted sample, mean, p50 and
\* p95 of the summary are null and count is 0; with an accepted sample none
\* of the four is null.
C26_EmptySummary ==
    result.op = "compute_kpis" =>
        \A d \in C26_Distributions :
            LET entries == C26_Entries(result.ret[d[1]])
            IN  IF C22_Samples(d[2], d[3]) = {}
                THEN /\ entries.count = Some(0)
                     /\ \A f \in {"mean", "p50", "p95"} : entries[f] = None
                ELSE \A f \in {"count", "mean", "p50", "p95"} : ~entries[f].null

\* C26 witness: the only job has a cycle of 3690 s, which is not accepted,
\* and no arc events
C26_Witness ==
    /\ result.op = "compute_kpis"
    /\ \E k \in C22_Groups :
          /\ C22_Stamps(k, "START_CYCLE") = {0}
          /\ C22_Stamps(k, "END_CYCLE") = {Seconds(3690)}
    /\ C22_Samples("START_CYCLE", "END_CYCLE") = {}
    /\ result.ret.cycle_time_sec =
          [count |-> 0, mean |-> None, p50 |-> None, p95 |-> None]

----------------------------------------------------------------------------
(* The error codes specification: compute_kpis is applied to events tables *)
(* with up to twelve different error codes, each on one ERROR event,       *)
(* followed by a few more events that repeat a code, carry a code on a     *)
(* RESET event or carry none.                                              *)

MaxErrorExtras == 2

CodeNames ==
    <<"E01", "E02", "E03", "E04", "E05", "E06", "E07", "E08", "E09", "E10",
      "E11", "E12">>

\* one ERROR event for each of the first n codes
ErrorBase(n) ==
    [i \in 1..n |-> EventRow(T0, "C01", "R01", "J1", "ERROR", CodeNames[i])]

ErrorBaseSizes == {0, 2, TOP_ERROR_CODES, TOP_ERROR_CODES + 1}

ErrorExtraRows ==
    {EventRow(T50, "C01", "R01", "J1", "ERROR", code) :
        code \in {CodeNames[1], CodeNames[TOP_ERROR_CODES + 1],
                  CodeNames[TOP_ERROR_CODES + 2], NA}} \cup
    {EventRow(T50, "C01", "R01", "J1", "RESET", code) :
        code \in {CodeNames[TOP_ERROR_CODES + 1], CodeNames[TOP_ERROR_CODES + 2]}}

InitErrors ==
    /\ config_file = FileMissing
    /\ thresholds = PyNone
    /\ \E n \in ErrorBaseSizes, extra \in TablesOver(ErrorExtraRows, MaxErrorExtras) :
          events = ErrorBase(n) \o extra
    /\ quality = <<>>
    /\ result = NoResult
    /\ reports = NoReports
    /\ clock = 0
    /\ data_files = NoFiles
    /\ runner = Idle
    /\ invocations = 0
    /\ writers = NoWriters

NextErrors == ComputeKpis

SpecErrors == InitErrors /\ [][NextErrors]_vars

----------------------------------------------------------------------------
(* Claims about top_error_codes *)

\* the number of ERROR events that carry the code
C23_Exact(code) ==
    Cardinality({i \in 1..Len(events) :
        events[i].event_type = "ERROR" /\ events[i].error_code = code})

\* the codes that some ERROR event carries
C23_Codes ==
    {events[i].error_code : i \in {j \in 1..Len(events) :
        events[j].event_type = "ERROR" /\ events[j].error_code # NA}}

\* C23: top_error_codes has at most 10 entries (all codes if there are at
\* most 10), one per code; each gives the exact number of ERROR events with
\* that code; codes of other event types and missing codes are not counted;
\* no code left out has a higher count than one included; the entries are
\* in descending order of count.
C23_TopErrorCodes ==
    result.op = "compute_kpis" =>
        LET top == result.ret.top_error_codes
            included == {top[i].code : i \in 1..Len(top)}
        IN  /\ Len(top) <= 10
            /\ Cardinality(C23_Codes) <= 10 => included = C23_Codes
            /\ Cardinality(included) = Len(top)
            /\ included \subseteq C23_Codes
            /\ \A i \in 1..Len(top) : top[i].count = C23_Exact(top[i].code)
            /\ \A code \in C23_Codes \ included, i \in 1..Len(top) :
                  C23_Exact(code) <= top[i].count
            /\ \A i, j \in 1..Len(top) : i < j => top[i].count >= top[j].count

\* C23 witness: eleven codes on ERROR events, the first of them twice, and a
\* twelfth code on a RESET event only: ten entries, the first code on top
\* with a count of 2, the eleventh left out, the twelfth not counted
C23_Witness ==
    /\ result.op = "compute_kpis"
    /\ Cardinality(C23_Codes) = 11
    /\ \E i \in 1..Len(events) :
          events[i].event_type = "RESET" /\ events[i].error_code = "E12"
    /\ Len(result.ret.top_error_codes) = 10
    /\ result.ret.top_error_codes[1] = [code |-> "E01", count |-> 2]
    /\ \A i \in 1..10 : result.ret.top_error_codes[i].code \notin {"E11", "E12"}

----------------------------------------------------------------------------
(* The downtime specification: an events table is read row by row, then    *)
(* _max_downtime_event_seconds is applied to it.                           *)

MaxDowntimeRows == 3

\* ERROR and RESET events of two streams of one cell at 0 s, 50 s, 100 s and
\* 3650 s (intervals of 50, 100, 3550, 3600 and 3650 s), an ERROR without a
\* usable timestamp, an unrelated event, a RESET without a cell
DowntimeEventRows ==
    {EventRow(ts, "C01", robot, "J1", type, NA) :
        ts \in {T0, T50, T100, T3650}, robot \in {"R01", "R02"},
        type \in {"ERROR", "RESET"}} \cup
    {EventRow(TBad, "C01", "R01", "J1", "ERROR", NA),
     EventRow(T50, "C01", "R01", "J1", "START_CYCLE", NA),
     EventRow(T100, NA, "R01", "J1", "RESET", NA)}

InitDowntime ==
    /\ config_file = FileMissing
    /\ thresholds = PyNone
    /\ events = <<>>
    /\ quality = <<>>
    /\ result = NoResult
    /\ reports = NoReports
    /\ clock = 0
    /\ data_files = NoFiles
    /\ runner = Idle
    /\ invocations = 0
    /\ writers = NoWriters

\* one more row of the events table
ReadDowntimeEventRow ==
    /\ result = NoResult
    /\ Len(events) < MaxDowntimeRows
    /\ \E r \in DowntimeEventRows : events' = Append(events, r)
    /\ UNCHANGED <<config_file, thresholds, quality, result, reports, clock, data_files, runner, invocations,
                   writers>>

\* max_dt = _max_downtime_event_seconds(events); er records the frame the
\* call scanned, as its sort left it
MaxDowntimeEventSeconds ==
    /\ result = NoResult
    /\ \E er \in TsSortedOrders(ErFrame(events)) :
          result' = [op |-> "_max_downtime_event_seconds", er |-> er,
                     ret |-> _max_downtime_event_seconds(er)]
    /\ UNCHANGED <<config_file, thresholds, events, quality, reports, clock, data_files, runner, invocations,
                   writers>>

NextDowntime ==
    \/ ReadDowntimeEventRow
    \/ MaxDowntimeEventSeconds

SpecDowntime == InitDowntime /\ [][NextDowntime]_vars

----------------------------------------------------------------------------
(* Claims about _max_downtime_event_seconds *)

IsDowntimeCall == result.op = "_max_downtime_event_seconds"

\* the rows of the events table that have a timestamp, a cell, a robot and
\* are an ERROR or a RESET
C8_Usable ==
    {i \in 1..Len(events) :
        /\ to_datetime(events[i].ts) # NaT
        /\ events[i].cell_id # NA /\ events[i].robot_id # NA
        /\ events[i].event_type \in {"ERROR", "RESET"}}

\* in the time-ordered frame er: the first RESET after row i in i's stream
C8_Resets(er, i) ==
    {j \in (i + 1)..Len(er) :
        /\ er[j].event_type = "RESET"
        /\ er[j].cell_id = er[i].cell_id /\ er[j].robot_id = er[i].robot_id}

\* the intervals ERROR -> first following RESET of the same stream that lie
\* in (0, 3600] seconds
C8_Intervals(er) ==
    {er[SetMin(C8_Resets(er, i))].ts - er[i].ts :
        i \in {x \in 1..Len(er) :
                 /\ er[x].event_type = "ERROR"
                 /\ C8_Resets(er, x) # {}
                 /\ 0 < er[SetMin(C8_Resets(er, x))].ts - er[x].ts
                 /\ er[SetMin(C8_Resets(er, x))].ts - er[x].ts <= 360000}}

\* C8: over the time-ordered ERROR/RESET rows of the table, the result is the
\* largest interval from an ERROR to the first RESET that follows it in the
\* same (cell_id, robot_id) stream, among the intervals in (0, 3600] s, and 0
\* when there is none; so it is 0 or lies in (0, 3600] s.
C8_MaxDowntime ==
    IsDowntimeCall =>
        LET er == result.er
        IN  \* the frame holds exactly the usable rows, in time order
            /\ Len(er) = Cardinality(C8_Usable)
            /\ \A i \in C8_Usable :
                  Cardinality({j \in 1..Len(er) :
                      er[j] = [events[i] EXCEPT !.ts = to_datetime(events[i].ts)]})
                  = Cardinality({j \in C8_Usable : events[j] = events[i]})
            /\ \A i, j \in 1..Len(er) : i < j => er[i].ts <= er[j].ts
            /\ result.ret = IF C8_Intervals(er) = {} THEN 0
                            ELSE SetMax(C8_Intervals(er))
            /\ result.ret = 0 \/ (0 < result.ret /\ result.ret <= 360000)

\* C8 witness: ERROR at 0 s on robot R01, a RESET of robot R02 at 50 s, the
\* RESET of R01 at 100 s: the result is 100 s
C8_Witness ==
    /\ IsDowntimeCall
    /\ events = <<EventRow(T0, "C01", "R01", "J1", "ERROR", NA),
                  EventRow(T50, "C01", "R02", "J1", "RESET", NA),
                  EventRow(T100, "C01", "R01", "J1", "RESET", NA)>>
    /\ result.ret = 10000

\* C9: when a second ERROR of the same stream lies between an ERROR and the
\* first RESET that follows it, both ERRORs are paired with that RESET: the
\* interval of each, if it lies in (0, 3600] s, is a candidate of the maximum.
C9_ResetNotConsumed ==
    IsDowntimeCall =>
        LET er == result.er
        IN  \A i, k \in 1..Len(er) :
                (/\ i < k
                 /\ er[i].event_type = "ERROR" /\ er[k].event_type = "ERROR"
                 /\ StreamKey(er[i]) = StreamKey(er[k])
                 /\ C8_Resets(er, i) # {}
                 /\ k < SetMin(C8_Resets(er, i)))
                => LET reset == er[SetMin(C8_Resets(er, i))]
                   IN  /\ (0 < reset.ts - er[i].ts /\ reset.ts - er[i].ts <= 360000)
                            => result.ret >= reset.ts - er[i].ts
                       /\ (0 < reset.ts - er[k].ts /\ reset.ts - er[k].ts <= 360000)
                            => result.ret >= reset.ts - er[k].ts

\* C9 witness: ERROR at 0 s, ERROR at 50 s and RESET at 100 s in one stream
\* give 100 s
C9_Witness ==
    /\ IsDowntimeCall
    /\ events = <<EventRow(T0, "C01", "R01", "J1", "ERROR", NA),
                  EventRow(T50, "C01", "R01", "J1", "ERROR", NA),
                  EventRow(T100, "C01", "R01", "J1", "RESET", NA)>>
    /\ result.ret = 10000

----------------------------------------------------------------------------
(* transform/cleaning.py: parse_and_clean_events *)

EVENT_TYPES_ALLOWED ==
    {"START_CYCLE", "ARC_ON", "ARC_OFF", "END_CYCLE", "ERROR", "RESET"}

\* str.strip() on the strings of the model; a missing cell stays missing
Strip(s) ==
    CASE s = " C01 " -> "C01"
      [] s = "ERROR " -> "ERROR"
      [] s = " CDD1" -> "CDD1"
      [] s = "   " -> ""
      [] s = " J1 " -> "J1"
      [] s = " nok " -> "nok"
      [] OTHER -> s

\* the rows of df at the positions I, in their order in df
RowsAt(df, I) ==
    [k \in 1..Cardinality(I) |->
        df[CHOOSE i \in I : Cardinality({j \in I : j < i}) = k - 1]]

\* ts parsed, the string columns stripped, a disallowed event_type made NA
NormalizeEvents(df) ==
    [i \in 1..Len(df) |->
        [ts |-> to_datetime(df[i].ts),
         cell_id |-> Strip(df[i].cell_id),
         robot_id |-> Strip(df[i].robot_id),
         job_id |-> Strip(df[i].job_id),
         program_id |-> Strip(df[i].program_id),
         event_type |-> IF Strip(df[i].event_type) \in EVENT_TYPES_ALLOWED
                        THEN Strip(df[i].event_type) ELSE NA,
         error_code |-> Strip(df[i].error_code)]]

\* faulty variant: a row without an event type stays
DropMissingEventsKeepsNoType(df) ==
    RowsAt(df, {i \in 1..Len(df) :
        /\ df[i].ts # NaT /\ df[i].cell_id # NA /\ df[i].robot_id # NA
        /\ df[i].job_id # NA /\ df[i].program_id # NA})

\* df.dropna(subset=["ts", "cell_id", "robot_id", "job_id", "program_id", "event_type"])
DropMissingEvents(df) ==
    RowsAt(df, {i \in 1..Len(df) :
        /\ df[i].ts # NaT /\ df[i].cell_id # NA /\ df[i].robot_id # NA
        /\ df[i].job_id # NA /\ df[i].program_id # NA /\ df[i].event_type # NA})

EventKey(r) ==
    <<r.ts, r.cell_id, r.robot_id, r.job_id, r.program_id, r.event_type, r.error_code>>

\* df.drop_duplicates(subset=[the 7 columns]): the first row of each key stays
DropDuplicateEvents(df) ==
    RowsAt(df, {i \in 1..Len(df) :
        ~ \E j \in 1..(i - 1) : EventKey(df[j]) = EventKey(df[i])})

\* the order of the strings of the id columns
SortedIds == <<"", "C01", "C02", "C03", "C04", "J1", "J2", "R01", "R02">>

IdRank(s) == CHOOSE k \in 1..Len(SortedIds) : SortedIds[k] = s

\* row a sorts before row b by (cell_id, robot_id, job_id, ts)
SortsBefore(a, b) ==
    \/ IdRank(a.cell_id) < IdRank(b.cell_id)
    \/ /\ a.cell_id = b.cell_id
       /\ \/ IdRank(a.robot_id) < IdRank(b.robot_id)
          \/ /\ a.robot_id = b.robot_id
             /\ \/ IdRank(a.job_id) < IdRank(b.job_id)
                \/ (a.job_id = b.job_id /\ a.ts < b.ts)

\* df.sort_values(["cell_id", "robot_id", "job_id", "ts"]).reset_index(drop=True):
\* a sort on several columns is stable
SortEvents(df) ==
    [k \in 1..Len(df) |->
        df[CHOOSE i \in 1..Len(df) :
              Cardinality({j \in 1..Len(df) :
                  \/ SortsBefore(df[j], df[i])
                  \/ (~SortsBefore(df[i], df[j]) /\ j < i)}) = k - 1]]

\* faulty variant: duplicates are dropped before the columns are normalized
ParseAndCleanEventsDedupFirst(events_table) ==
    SortEvents(DropMissingEvents(NormalizeEvents(DropDuplicateEvents(events_table))))

parse_and_clean_events(events_table) ==
    SortEvents(DropDuplicateEvents(DropMissingEvents(NormalizeEvents(events_table))))

----------------------------------------------------------------------------
(* transform/cleaning.py: parse_and_clean_quality.  The reason and          *)
(* rework_needed columns are carried along and never decide whether a row  *)
(* stays; the rows of the model leave them out.                            *)

\* the string columns stripped
NormalizeQuality(df) ==
    [i \in 1..Len(df) |->
        [df[i] EXCEPT !.job_id = Strip(@), !.cell_id = Strip(@),
                      !.robot_id = Strip(@), !.program_id = Strip(@),
                      !.result = Strip(@)]]

\* df.dropna(subset=["job_id", "cell_id", "robot_id", "program_id", "result"])
DropMissingQuality(df) ==
    RowsAt(df, {i \in 1..Len(df) :
        /\ df[i].job_id # NA /\ df[i].cell_id # NA /\ df[i].robot_id # NA
        /\ df[i].program_id # NA /\ df[i].result # NA})

\* faulty variant: the result column is not uppercased before it is compared
NormalizeResultCaseSensitive(df) ==
    RowsAt(df, {i \in 1..Len(df) : df[i].result \in {"OK", "NOK"}})

\* result uppercased; a result other than OK and NOK becomes NA and its row
\* is dropped
NormalizeResult(df) ==
    LET up == [i \in 1..Len(df) |-> [df[i] EXCEPT !.result = Upper(@)]]
    IN  RowsAt(up, {i \in 1..Len(up) : up[i].result \in {"OK", "NOK"}})

\* faulty variant: the last row of each job_id stays
DropDuplicateJobsKeepLast(df) ==
    RowsAt(df, {i \in 1..Len(df) :
        ~ \E j \in (i + 1)..Len(df) : df[j].job_id = df[i].job_id})

\* df.drop_duplicates(subset=["job_id"]): the first row of each job_id stays
DropDuplicateJobs(df) ==
    RowsAt(df, {i \in 1..Len(df) :
        ~ \E j \in 1..(i - 1) : df[j].job_id = df[i].job_id})

parse_and_clean_quality(quality_table) ==
    DropDuplicateJobs(NormalizeResult(DropMissingQuality(NormalizeQuality(quality_table))))

----------------------------------------------------------------------------
(* transform/dq.py: build_dq_report *)

\* the key columns of a raw row, as they were read
RawKey(r) ==
    <<r.ts, r.cell_id, r.robot_id, r.job_id, r.program_id, r.event_type, r.error_code>>

\* faulty variant: every row of a repeated key is counted, the first one too
RawDupesCountsAll(events_raw) ==
    Cardinality({i \in 1..Len(events_raw) :
        \E j \in 1..Len(events_raw) :
            j # i /\ RawKey(events_raw[j]) = RawKey(events_raw[i])})

\* int(events_raw.duplicated(subset=key_cols).sum()): the rows whose key
\* columns repeat those of an earlier row (two missing cells count as equal)
RawDupes(events_raw) ==
    Cardinality({i \in 1..Len(events_raw) :
        \E j \in 1..(i - 1) : RawKey(events_raw[j]) = RawKey(events_raw[i])})

\* int(pd.to_datetime(events_raw["ts"], errors="coerce").isna().sum())
MissingTsInRaw(events_raw) ==
    Cardinality({i \in 1..Len(events_raw) : to_datetime(events_raw[i].ts) = NaT})

\* the groups of events_clean.groupby(["cell_id", "robot_id", "job_id"], dropna=False)
DqGroups(events_clean) ==
    {<<events_clean[i].cell_id, events_clean[i].robot_id, events_clean[i].job_id>> :
        i \in 1..Len(events_clean)}

\* types.count(type) in the group k
TypeCount(events_clean, k, type) ==
    Cardinality({i \in 1..Len(events_clean) :
        /\ <<events_clean[i].cell_id, events_clean[i].robot_id,
             events_clean[i].job_id>> = k
        /\ events_clean[i].event_type = type})

\* faulty variant: the difference is added whatever its sign
ExcessSigned(a, b) == a - b

\* a - b where a > b, else 0
Excess(a, b) == IF a > b THEN a - b ELSE 0

build_dq_report(events_raw, events_clean, quality_raw, quality_clean) ==
    LET grp == DqGroups(events_clean)
        arc_on == [k \in grp |-> TypeCount(events_clean, k, "ARC_ON")]
        arc_off == [k \in grp |-> TypeCount(events_clean, k, "ARC_OFF")]
        start == [k \in grp |-> TypeCount(events_clean, k, "START_CYCLE")]
        end == [k \in grp |-> TypeCount(events_clean, k, "END_CYCLE")]
    IN  [events_rows_in |-> Len(events_raw),
         events_rows_out |-> Len(events_clean),
         quality_rows_in |-> Len(quality_raw),
         quality_rows_out |-> Len(quality_clean),
         missing_ts_in_raw |-> MissingTsInRaw(events_raw),
         duplicates_removed |-> RawDupes(events_raw),
         arc_on_without_off |->
             SetSum([k \in grp |-> Excess(arc_on[k], arc_off[k])], grp),
         arc_off_without_on |->
             SetSum([k \in grp |-> Excess(arc_off[k], arc_on[k])], grp),
         missing_start_end_pairs |->
             SetSum([k \in grp |-> Excess(start[k], end[k]) + Excess(end[k], start[k])],
                    grp)]

----------------------------------------------------------------------------
(* cli.py: cmd_transform *)

\* a timestamp as to_csv writes it
FormatTs(t) ==
    CASE t = 0 -> "2024-01-01 00:00:00+00:00"
      [] t = Seconds(50) -> "2024-01-01 00:00:50+00:00"
      [] t = Seconds(90) -> "2024-01-01 00:01:30+00:00"
      [] t = Seconds(100) -> "2024-01-01 00:01:40+00:00"
      [] t = Seconds(3650) -> "2024-01-01 01:00:50+00:00"
      [] t = Seconds(3690) -> "2024-01-01 01:01:30+00:00"

\* a cell as to_csv writes it: a missing cell is an empty field
CsvField(x) == IF x = NA THEN "" ELSE x

\* events_clean.to_csv(path, index=False)
EventsToCsv(df) ==
    [i \in 1..Len(df) |->
        [ts |-> FormatTs(df[i].ts),
         cell_id |-> CsvField(df[i].cell_id),
         robot_id |-> CsvField(df[i].robot_id),
         job_id |-> CsvField(df[i].job_id),
         program_id |-> CsvField(df[i].program_id),
         event_type |-> CsvField(df[i].event_type),
         error_code |-> CsvField(df[i].error_code)]]

\* quality_clean.to_csv(path, index=False)
QualityToCsv(df) ==
    [i \in 1..Len(df) |->
        [job_id |-> CsvField(df[i].job_id),
         cell_id |-> CsvField(df[i].cell_id),
         robot_id |-> CsvField(df[i].robot_id),
         program_id |-> CsvField(df[i].program_id),
         result |-> CsvField(df[i].result)]]

\* pd.read_csv(path): an empty field is read as a missing cell
read_csv(file) ==
    [i \in 1..Len(file) |->
        [c \in DOMAIN file[i] |-> IF file[i][c] = "" THEN NA ELSE file[i][c]]]

\* the files of data/raw and data/staged
RawFile(kind, stamp) == <<kind, "raw", stamp>>
StagedFile(kind, stamp) == <<kind, "staged", stamp>>

\* cmd_transform on the tables read from args.events and args.quality: both
\* are cleaned, the DQ report is built, the staged tables and the report are
\* written under the stamp of the current second, the report under latest too
cmd_transform(events_raw, quality_raw) ==
    LET stamp == clock
        events_clean == parse_and_clean_events(events_raw)
        quality_clean == parse_and_clean_quality(quality_raw)
        dq == build_dq_report(events_raw, events_clean, quality_raw, quality_clean)
    IN  /\ data_files' =
               WriteText(WriteText(data_files,
                                   StagedFile("robot_events", stamp),
                                   EventsToCsv(events_clean)),
                         StagedFile("quality_checks", stamp),
                         QualityToCsv(quality_clean))
        /\ reports' = WriteText(WriteText(reports, StampedReport("dq", stamp), dq),
                                LatestReport("dq"), dq)
        /\ result' = [op |-> "cmd_transform", exit |-> 0, stamp |-> stamp,
                      events_clean |-> events_clean,
                      quality_clean |-> quality_clean, report |-> dq]

----------------------------------------------------------------------------
(* The cleaner specification: a raw events table and a raw quality table   *)
(* are read row by row (as pd.read_csv hands them over: an empty field is  *)
(* a missing cell, a blank one is a string), then one of the cleaners or   *)
(* the whole transform command is applied to them.                         *)

MaxCleanRows == 3

\* one ERROR event written in three ways (another UTC offset, padded cell),
\* the same event without an error code (plain, and with a padded type),
\* with a blank error code; ARC_ON events of two instants, jobs and cells;
\* rows with a bad timestamp, without a cell, with a blank cell, with a
\* blank program and with an event type that is not allowed
CleanEventRows ==
    {EventRow(T0, "C01", "R01", "J1", "ERROR", "CDD1"),
     EventRow(T0plus1h, "C01", "R01", "J1", "ERROR", "CDD1"),
     EventRow(T0, " C01 ", "R01", "J1", "ERROR", " CDD1"),
     EventRow(T0, "C01", "R01", "J1", "ERROR", NA),
     EventRow(T0, "C01", "R01", "J1", "ERROR ", NA),
     EventRow(T0, "C01", "R01", "J1", "ERROR", "   "),
     EventRow(T0, "C01", "R01", "J1", "ARC_ON", NA),
     EventRow(T90, "C01", "R01", "J1", "ARC_ON", NA),
     EventRow(T0, "C01", "R01", "J2", "ARC_ON", NA),
     EventRow(T0, "C02", "R01", "J1", "ARC_ON", NA),
     EventRow(TBad, "C01", "R01", "J1", "ARC_ON", NA),
     EventRow(T0, NA, "R01", "J1", "ARC_ON", NA),
     EventRow(T0, "   ", "R01", "J1", "ARC_ON", NA),
     [EventRow(T0, "C01", "R01", "J1", "ARC_ON", NA) EXCEPT !.program_id = "   "],
     EventRow(T0, "C01", "R01", "J1", "WELD", NA)}

\* results of job J1 written OK, NOK, in lower case with padding, with a
\* value that is no result, blank and missing; a second job; job J1 written
\* with padding; rows without a job, with a blank job and with a blank cell
CleanQualityRows ==
    {QualityRow("J1", "C01", "R01", "OK"),
     QualityRow("J1", "C01", "R01", "NOK"),
     QualityRow("J1", "C01", "R01", " nok "),
     QualityRow("J1", "C01", "R01", "MAYBE"),
     QualityRow("J1", "C01", "R01", "   "),
     QualityRow("J1", "C01", "R01", NA),
     QualityRow("J2", "C01", "R01", "ok"),
     QualityRow(" J1 ", "C02", "R01", "OK"),
     QualityRow(NA, "C01", "R01", "OK"),
     QualityRow("   ", "C01", "R01", "OK"),
     QualityRow("J1", "   ", "R01", "OK")}

InitClean ==
    /\ config_file = FileMissing
    /\ thresholds = PyNone
    /\ events = <<>>
    /\ quality = <<>>
    /\ result = NoResult
    /\ reports = NoReports
    /\ clock = 0
    /\ data_files = NoFiles
    /\ runner = Idle
    /\ invocations = 0
    /\ writers = NoWriters

\* one more row of the raw events table
ReadRawEventRow ==
    /\ result = NoResult
    /\ Len(events) + Len(quality) < MaxCleanRows
    /\ \E r \in CleanEventRows : events' = Append(events, r)
    /\ UNCHANGED <<config_file, thresholds, quality, result, reports, clock,
                   data_files, runner, invocations, writers>>

\* one more row of the raw quality table
ReadRawQualityRow ==
    /\ result = NoResult
    /\ Len(events) + Len(quality) < MaxCleanRows
    /\ \E r \in CleanQualityRows : quality' = Append(quality, r)
    /\ UNCHANGED <<config_file, thresholds, events, result, reports, clock,
                   data_files, runner, invocations, writers>>

\* events_clean = parse_and_clean_events(events_raw)
ParseAndCleanEvents ==
    /\ result = NoResult
    /\ result' = [op |-> "parse_and_clean_events",
                  ret |-> parse_and_clean_events(events)]
    /\ UNCHANGED <<config_file, thresholds, events, quality, reports, clock,
                   data_files, runner, invocations, writers>>

\* quality_clean = parse_and_clean_quality(quality_raw)
ParseAndCleanQuality ==
    /\ result = NoResult
    /\ result' = [op |-> "parse_and_clean_quality",
                  ret |-> parse_and_clean_quality(quality)]
    /\ UNCHANGED <<config_file, thresholds, events, quality, reports, clock,
                   data_files, runner, invocations, writers>>

\* the transform command on the two raw tables
CmdTransform ==
    /\ result = NoResult
    /\ cmd_transform(events, quality)
    /\ UNCHANGED <<config_file, thresholds, events, quality, clock, runner, invocations,
                   writers>>

NextClean ==
    \/ ReadRawEventRow
    \/ ReadRawQualityRow
    \/ ParseAndCleanEvents
    \/ ParseAndCleanQuality
    \/ CmdTransform

SpecClean == InitClean /\ [][NextClean]_vars

----------------------------------------------------------------------------
(* Claims about parse_and_clean_events *)

\* the 7-tuple of a raw row after normalization: the instant its ts denotes
\* and its strings without surrounding whitespace
C10_Tuple(r) ==
    <<to_datetime(r.ts), Strip(r.cell_id), Strip(r.robot_id), Strip(r.job_id),
      Strip(r.program_id), Strip(r.event_type), Strip(r.error_code)>>

\* a raw row is valid: its timestamp parses, no required field is missing
\* and its event type is allowed
C10_Valid(r) ==
    /\ to_datetime(r.ts) # NaT
    /\ r.cell_id # NA /\ r.robot_id # NA /\ r.job_id # NA /\ r.program_id # NA
    /\ Strip(r.event_type) \in
          {"START_CYCLE", "ARC_ON", "ARC_OFF", "END_CYCLE", "ERROR", "RESET"}

C10_OutTuple(r) ==
    <<r.ts, r.cell_id, r.robot_id, r.job_id, r.program_id, r.event_type, r.error_code>>

\* C10: the cleaned events never hold two rows with the same normalized
\* 7-tuple (two missing error codes count as equal), and the 7-tuple of every
\* valid raw row is the 7-tuple of exactly one cleaned row.
C10_CleanEventsUnique ==
    result.op = "parse_and_clean_events" =>
        LET out == result.ret
        IN  /\ \A i, j \in 1..Len(out) :
                  C10_OutTuple(out[i]) = C10_OutTuple(out[j]) => i = j
            /\ \A i \in 1..Len(events) :
                  C10_Valid(events[i]) =>
                      Cardinality({j \in 1..Len(out) :
                          C10_OutTuple(out[j]) = C10_Tuple(events[i])}) = 1

\* C10 witness: three raw rows that denote one event (written with another
\* UTC offset, and with padded strings) leave a single cleaned row
C10_Witness ==
    /\ result.op = "parse_and_clean_events"
    /\ events = <<EventRow(T0, "C01", "R01", "J1", "ERROR", "CDD1"),
                  EventRow(T0plus1h, "C01", "R01", "J1", "ERROR", "CDD1"),
                  EventRow(T0, " C01 ", "R01", "J1", "ERROR", " CDD1")>>
    /\ Len(result.ret) = 1

----------------------------------------------------------------------------
(* Claims about the DQ report's duplicate counter *)

C11_IsTransform == result.op = "cmd_transform"

C11_AllValid == \A i \in 1..Len(events) : C10_Valid(events[i])

\* the rows the cleaner removed
C11_Removed == result.report.events_rows_in - result.report.events_rows_out

\* C11 as stated: when every raw row is valid, duplicates_removed equals
\* events_rows_in - events_rows_out.
C11_Original_EqualsRemoved ==
    (C11_IsTransform /\ C11_AllValid) =>
        result.report.duplicates_removed = C11_Removed

\* rows that denote the same event are written in the same way
C11_WrittenAlike ==
    \A i, j \in 1..Len(events) :
        C10_Tuple(events[i]) = C10_Tuple(events[j]) => events[i] = events[j]

\* C11: when every raw row is valid, duplicates_removed is the number of raw
\* rows that are written exactly as an earlier row; it is at most
\* events_rows_in - events_rows_out, and equal to it when rows that denote
\* the same event are written in the same way.
C11_DuplicatesCountedOnRaw ==
    (C11_IsTransform /\ C11_AllValid) =>
        /\ result.report.duplicates_removed =
               Cardinality({i \in 1..Len(events) :
                   \E j \in 1..(i - 1) : events[j] = events[i]})
        /\ result.report.duplicates_removed <= C11_Removed
        /\ C11_WrittenAlike => result.report.duplicates_removed = C11_Removed

\* C11 witness: two identical valid rows and a third one give two cleaned
\* rows and a duplicate counter of 1
C11_Witness ==
    /\ C11_IsTransform /\ C11_AllValid
    /\ Len(events) = 3
    /\ events[1] = events[2]
    /\ events[3] = EventRow(T90, "C01", "R01", "J1", "ARC_ON", NA)
    /\ Len(result.events_clean) = 2
    /\ result.report.duplicates_removed = 1

----------------------------------------------------------------------------
(* Claims about the rows the cleaners keep.  A field is present when its   *)
(* cell is not missing; what becomes of a blank field is the matter of C13 *)
(* alone.                                                                  *)

\* a raw events row is invalid: its timestamp does not parse, a required
\* field is missing or its event type is not allowed
C12_Invalid(r) ==
    \/ to_datetime(r.ts) = NaT
    \/ r.cell_id = NA \/ r.robot_id = NA \/ r.job_id = NA \/ r.program_id = NA
    \/ r.event_type = NA
    \/ Strip(r.event_type) \notin
          {"START_CYCLE", "ARC_ON", "ARC_OFF", "END_CYCLE", "ERROR", "RESET"}

\* C12: every row of the output of parse_and_clean_events has a parsed
\* timestamp, a present cell_id, robot_id, job_id and program_id and an
\* allowed event type; no invalid raw row appears in the output, and a table
\* of invalid rows only is cleaned to the empty table.
C12_CleanEventsValid ==
    result.op = "parse_and_clean_events" =>
        LET out == result.ret
        IN  /\ \A j \in 1..Len(out) :
                  /\ out[j].ts # NaT
                  /\ out[j].cell_id # NA /\ out[j].robot_id # NA
                  /\ out[j].job_id # NA /\ out[j].program_id # NA
                  /\ out[j].event_type \in
                        {"START_CYCLE", "ARC_ON", "ARC_OFF", "END_CYCLE",
                         "ERROR", "RESET"}
            /\ \A i \in 1..Len(events) :
                  C12_Invalid(events[i]) =>
                      \A j \in 1..Len(out) :
                          C10_OutTuple(out[j]) # C10_Tuple(events[i])
            /\ Len(out) <=
                  Cardinality({i \in 1..Len(events) : ~C12_Invalid(events[i])})
            /\ (\A i \in 1..Len(events) : C12_Invalid(events[i])) => out = <<>>

\* C12 witness: rows with a bad timestamp, without a cell and with a
\* disallowed event type are cleaned to the empty table
C12_Witness ==
    /\ result.op = "parse_and_clean_events"
    /\ events = <<EventRow(TBad, "C01", "R01", "J1", "ARC_ON", NA),
                  EventRow(T0, NA, "R01", "J1", "ARC_ON", NA),
                  EventRow(T0, "C01", "R01", "J1", "WELD", NA)>>
    /\ result.ret = <<>>

\* a string field is blank: empty once trimmed
C13_Blank(x) == x # NA /\ Strip(x) = ""

\* C13: a raw events row whose cell_id, robot_id, job_id or program_id is
\* blank, and a raw quality row whose job_id, cell_id, robot_id or
\* program_id is blank, does not appear in the cleaned output.
C13_BlankIsMissing ==
    /\ result.op = "parse_and_clean_events" =>
          \A i \in 1..Len(events) :
              (\/ C13_Blank(events[i].cell_id) \/ C13_Blank(events[i].robot_id)
               \/ C13_Blank(events[i].job_id) \/ C13_Blank(events[i].program_id)) =>
                  \A j \in 1..Len(result.ret) :
                      C10_OutTuple(result.ret[j]) # C10_Tuple(events[i])
    /\ result.op = "parse_and_clean_quality" =>
          \A i \in 1..Len(quality) :
              (\/ C13_Blank(quality[i].job_id) \/ C13_Blank(quality[i].cell_id)
               \/ C13_Blank(quality[i].robot_id) \/ C13_Blank(quality[i].program_id)) =>
                  \A j \in 1..Len(result.ret) :
                      \/ result.ret[j].job_id # Strip(quality[i].job_id)
                      \/ result.ret[j].cell_id # Strip(quality[i].cell_id)
                      \/ result.ret[j].robot_id # Strip(quality[i].robot_id)
                      \/ result.ret[j].program_id # Strip(quality[i].program_id)

\* a raw quality row as the cleaner writes it: strings trimmed, result in
\* upper case
C14_Normal(r) ==
    [job_id |-> Strip(r.job_id), cell_id |-> Strip(r.cell_id),
     robot_id |-> Strip(r.robot_id), program_id |-> Strip(r.program_id),
     result |-> Upper(Strip(r.result))]

\* a raw quality row passes validation: its required fields are present and
\* its result is OK or NOK up to letter case
C14_Passes(r) ==
    /\ r.job_id # NA /\ r.cell_id # NA /\ r.robot_id # NA /\ r.program_id # NA
    /\ r.result # NA /\ Upper(Strip(r.result)) \in {"OK", "NOK"}

\* row i is the first raw row of its job that passes validation
C14_FirstOfJob(i) ==
    /\ C14_Passes(quality[i])
    /\ \A h \in 1..(i - 1) :
          ~(/\ C14_Passes(quality[h])
            /\ Strip(quality[h].job_id) = Strip(quality[i].job_id))

\* C14: in the output of parse_and_clean_quality every row has job_id,
\* cell_id, robot_id, program_id and result present, every result is OK or
\* NOK, each job_id occurs once, and the rows are exactly, for each job, the
\* first raw row of that job, in input order, that passes validation.
C14_FirstPassingRowKept ==
    result.op = "parse_and_clean_quality" =>
        LET out == result.ret
        IN  /\ \A j \in 1..Len(out) :
                  /\ out[j].job_id # NA /\ out[j].cell_id # NA
                  /\ out[j].robot_id # NA /\ out[j].program_id # NA
                  /\ out[j].result \in {"OK", "NOK"}
            /\ \A j, k \in 1..Len(out) : out[j].job_id = out[k].job_id => j = k
            /\ \A i \in 1..Len(quality) :
                  C14_FirstOfJob(i) =>
                      \E j \in 1..Len(out) : out[j] = C14_Normal(quality[i])
            /\ \A j \in 1..Len(out) :
                  \E i \in 1..Len(quality) :
                      C14_FirstOfJob(i) /\ out[j] = C14_Normal(quality[i])

\* C14 witness: three raw rows of job J1, the first without a usable result,
\* the second NOK in lower case with padding, the third OK with a padded
\* job_id: the second one is kept
C14_Witness ==
    /\ result.op = "parse_and_clean_quality"
    /\ quality = <<QualityRow("J1", "C01", "R01", "MAYBE"),
                   QualityRow("J1", "C01", "R01", " nok "),
                   QualityRow(" J1 ", "C02", "R01", "OK")>>
    /\ result.ret = <<QualityRow("J1", "C01", "R01", "NOK")>>

----------------------------------------------------------------------------
(* cli.py: cmd_report_kpi *)

\* kpis.get("cycle_time_sec", {}).get("p95") or 0.0
P95OrZero(kpis) ==
    IF kpis.cycle_time_sec.p95.null THEN 0 ELSE kpis.cycle_time_sec.p95.v

\* the kpis dict once max_downtime_event_sec, cycle_time_p95_sec and the
\* alerts are added; th is what _safe_load_thresholds returned, max_dt what
\* _max_downtime_event_seconds returned
KpiReport(kpis, th, max_dt) ==
    [jobs_total |-> kpis.jobs_total,
     jobs_nok |-> kpis.jobs_nok,
     scrap_rate |-> kpis.scrap_rate,
     cycle_time_sec |-> kpis.cycle_time_sec,
     arc_on_time_sec |-> kpis.arc_on_time_sec,
     top_error_codes |-> kpis.top_error_codes,
     max_downtime_event_sec |-> RoundTo(max_dt, 10),
     cycle_time_p95_sec |-> RoundTo(P95OrZero(kpis), 10),
     alerts |-> <<alert_scrap_rate(kpis.scrap_rate, th),
                  alert_long_downtime(max_dt, th),
                  alert_cycle_time_p95(P95OrZero(kpis), th)>>]

\* faulty variant: the loader's exception is not caught
SafeLoadOutcomeUncaught(file) == load_thresholds(file)

\* thresholds = _safe_load_thresholds(), as cmd_report_kpi calls it
SafeLoadOutcome(file) == _safe_load_thresholds(file)

----------------------------------------------------------------------------
(* The pairing specification: the transform command is run on raw events   *)
(* that are all valid, opening and closing events of two jobs.             *)

MaxDqRows == 3

\* ARC_ON and START_CYCLE events at 0 s and 90 s, ARC_OFF and END_CYCLE
\* events at 90 s, of jobs J1 and J2; an ARC_OFF of job J1 under another
\* program
DqEventRows ==
    {EventRow(ts, "C01", "R01", job, type, NA) :
        ts \in {T0, T90}, job \in {"J1", "J2"}, type \in {"ARC_ON", "START_CYCLE"}} \cup
    {EventRow(T90, "C01", "R01", job, type, NA) :
        job \in {"J1", "J2"}, type \in {"ARC_OFF", "END_CYCLE"}} \cup
    {[EventRow(T90, "C01", "R01", "J1", "ARC_OFF", NA) EXCEPT !.program_id = "P002"]}

InitDq ==
    /\ config_file = FileMissing
    /\ thresholds = PyNone
    /\ events \in TablesOver(DqEventRows, MaxDqRows)
    /\ quality = <<>>
    /\ result = NoResult
    /\ reports = NoReports
    /\ clock = 0
    /\ data_files = NoFiles
    /\ runner = Idle
    /\ invocations = 0
    /\ writers = NoWriters

NextDq == CmdTransform

SpecDq == InitDq /\ [][NextDq]_vars

----------------------------------------------------------------------------
(* Claims about the pairing counters of the DQ report *)

\* the (cell_id, robot_id, job_id) groups of the cleaned events, and the
\* number of events of a type in a group
C25_Groups ==
    {<<r.cell_id, r.robot_id, r.job_id>> : r \in Rows(result.events_clean)}

C25_Count(k, type) ==
    Cardinality({i \in 1..Len(result.events_clean) :
        LET r == result.events_clean[i]
        IN  <<r.cell_id, r.robot_id, r.job_id>> = k /\ r.event_type = type})

C25_Balanced ==
    \A k \in C25_Groups :
        /\ C25_Count(k, "ARC_ON") = C25_Count(k, "ARC_OFF")
        /\ C25_Count(k, "START_CYCLE") = C25_Count(k, "END_CYCLE")

\* C25: arc_on_without_off, arc_off_without_on and missing_start_end_pairs
\* are the sums over the (cell_id, robot_id, job_id) groups of the cleaned
\* events of max(0, #ARC_ON - #ARC_OFF), max(0, #ARC_OFF - #ARC_ON) and
\* |#START_CYCLE - #END_CYCLE|; all three are 0 exactly when every group is
\* balanced; the command ends with exit code 0 whatever the counts are.
C25_PairingCounters ==
    C11_IsTransform =>
        LET dq == result.report
            on_off == [k \in C25_Groups |->
                          C25_Count(k, "ARC_ON") - C25_Count(k, "ARC_OFF")]
            start_end == [k \in C25_Groups |->
                          C25_Count(k, "START_CYCLE") - C25_Count(k, "END_CYCLE")]
            Pos(x) == IF x > 0 THEN x ELSE 0
            Abs(x) == IF x > 0 THEN x ELSE 0 - x
        IN  /\ dq.arc_on_without_off =
                  SetSum([k \in C25_Groups |-> Pos(on_off[k])], C25_Groups)
            /\ dq.arc_off_without_on =
                  SetSum([k \in C25_Groups |-> Pos(0 - on_off[k])], C25_Groups)
            /\ dq.missing_start_end_pairs =
                  SetSum([k \in C25_Groups |-> Abs(start_end[k])], C25_Groups)
            /\ C25_Balanced <=>
                  /\ dq.arc_on_without_off = 0
                  /\ dq.arc_off_without_on = 0
                  /\ dq.missing_start_end_pairs = 0
            /\ result.exit = 0
            /\ reports[LatestReport("dq")] = dq

\* C25 witness: job J1 has two ARC_ON and one ARC_OFF, the ARC_OFF under
\* another program: one ARC_ON is without its ARC_OFF
C25_Witness ==
    /\ C11_IsTransform
    /\ Len(result.events_clean) = 3
    /\ C25_Count(<<"C01", "R01", "J1">>, "ARC_ON") = 2
    /\ C25_Count(<<"C01", "R01", "J1">>, "ARC_OFF") = 1
    /\ \E r \in Rows(result.events_clean) : r.program_id = "P002"
    /\ result.report.arc_on_without_off = 1
    /\ result.report.arc_off_without_on = 0
    /\ result.report.missing_start_end_pairs = 0

----------------------------------------------------------------------------
(* The report specification: the events and quality CSV files and the      *)
(* threshold config are on disk; the report-kpi command runs on them, any  *)
(* number of times, while the clock advances.                              *)

MaxReportRows == 2
MaxClock == 1

\* a cycle of 90 s; downtimes of 50, 100, 100.04, 3600 and 3650 s
ReportEventRows ==
    {EventRow(T0, "C01", "R01", "J1", "START_CYCLE", NA),
     EventRow(T90, "C01", "R01", "J1", "END_CYCLE", NA),
     EventRow(T0, "C01", "R01", "J1", "ERROR", "CDD1"),
     EventRow(T50, "C01", "R01", "J1", "ERROR", "CDD1"),
     EventRow(T100, "C01", "R01", "J1", "RESET", NA),
     EventRow(T100_04, "C01", "R01", "J1", "RESET", NA),
     EventRow(T3650, "C01", "R01", "J1", "RESET", NA)}

ReportQualityRows ==
    {QualityRow("J1", "C01", "R01", "OK"), QualityRow("J2", "C01", "R01", "NOK")}


\* a config that sets its own pair for every metric
CustomMapping ==
    [m \in METRICS |->
        CASE m = "scrap_rate" -> DictEntry(Num(50000), Num(100000))
          [] m = "downtime_event_sec" -> DictEntry(Num(5000), Num(10000))
          [] m = "cycle_time_p95_sec" -> DictEntry(Num(8000), Num(9000))]

ReportConfigSamples ==
    {FileMissing, FileInvalidYaml, FileYaml([kind |-> "list"]),
     FileYaml(PyDict(CustomMapping)),
     FileYaml(PyDict([m \in METRICS |-> DictEntry(BadStr, Num(100))]))}

InitReport ==
    /\ config_file \in ReportConfigSamples
    /\ thresholds = PyNone
    /\ events \in TablesOver(ReportEventRows, MaxReportRows)
    /\ quality \in TablesOver(ReportQualityRows, MaxReportRows)
    /\ result = NoResult
    /\ reports = NoReports
    /\ clock = 0
    /\ data_files = NoFiles
    /\ runner = Idle
    /\ invocations = 0
    /\ writers = NoWriters

\* a second passes
Tick ==
    /\ clock < MaxClock
    /\ clock' = clock + 1
    /\ UNCHANGED <<config_file, thresholds, events, quality, result, reports,
                   data_files, runner, invocations, writers>>

\* cmd_report_kpi on the tables read from args.events and args.quality
cmd_report_kpi(events_table, quality_table) ==
    LET kpis == compute_kpis(events_table, quality_table)
        loaded == SafeLoadOutcome(config_file)
    IN  IF loaded.raised # "none"
           THEN \* the exception ends the command before anything is written
                /\ result' = [op |-> "cmd_report_kpi", exit |-> 1]
                /\ UNCHANGED <<thresholds, reports, writers>>
           ELSE \E er \in TsSortedOrders(ErFrame(events_table)) :
                   LET max_dt == _max_downtime_event_seconds(er)
                       report == KpiReport(kpis, loaded.value, max_dt)
                   IN  /\ thresholds' = loaded.value
                       /\ reports' = WriteText(
                              WriteText(reports, StampedReport("kpi", clock), report),
                              LatestReport("kpi"), report)
                       /\ result' = [op |-> "cmd_report_kpi", exit |-> 0,
                                     stamp |-> clock,
                                     report |-> report, max_dt |-> max_dt,
                                     p95_cycle |-> P95OrZero(kpis)]

\* weld_pipeline report-kpi --events ... --quality ...
CmdReportKpi ==
    /\ cmd_report_kpi(events, quality)
    /\ UNCHANGED <<config_file, events, quality, clock, data_files, runner,
                   invocations, writers>>

NextReport ==
    \/ Tick
    \/ CmdReportKpi

SpecReport == InitReport /\ [][NextReport]_vars

----------------------------------------------------------------------------
(* Claims about the report-kpi command *)

C5_Metrics == <<"scrap_rate", "downtime_event_sec", "cycle_time_p95_sec">>

\* the value each alert function was handed by the last report-kpi run
C5_Value(k) ==
    CASE k = 1 -> result.report.scrap_rate
      [] k = 2 -> result.max_dt
      [] k = 3 -> result.p95_cycle

C5_Default(k) ==
    CASE k = 1 -> [warning_gt |-> 8000, alert_gt |-> 10000]
      [] k = 2 -> [warning_gt |-> 30000, alert_gt |-> 180000]
      [] k = 3 -> [warning_gt |-> 12000, alert_gt |-> 15000]

C5_LevelBy(v, pair) ==
    IF v > pair.alert_gt THEN "ALERT"
    ELSE IF v > pair.warning_gt THEN "WARNING" ELSE "OK"

\* C5: with the threshold config missing or unparseable the report-kpi
\* command still ends with exit code 0 and writes the KPI report (the
\* timestamped file and the latest file), and the report's three alert
\* records carry the hardcoded default pair of their metric and the level
\* that pair gives.
C5_ReportWithoutConfig ==
    (result.op = "cmd_report_kpi" /\ config_file.kind \in {"missing", "invalid_yaml"})
    => /\ result.exit = 0
       /\ LatestReport("kpi") \in DOMAIN reports
       /\ reports[LatestReport("kpi")] = result.report
       /\ StampedReport("kpi", result.stamp) \in DOMAIN reports
       /\ reports[StampedReport("kpi", result.stamp)] = result.report
       /\ Len(result.report.alerts) = 3
       /\ \A k \in 1..3 :
             LET a == result.report.alerts[k]
             IN  /\ a.metric = C5_Metrics[k]
                 /\ a.thresholds = C5_Default(k)
                 /\ a.level = C5_LevelBy(C5_Value(k), C5_Default(k))

\* C5 witness: the config is unparseable, the run found a downtime of 3600 s
\* and one NOK job of one, and raised both alerts by the default thresholds
C5_Witness ==
    /\ result.op = "cmd_report_kpi"
    /\ config_file.kind = "invalid_yaml"
    /\ LatestReport("kpi") \in DOMAIN reports
    /\ reports[LatestReport("kpi")].alerts[1].level = "ALERT"
    /\ reports[LatestReport("kpi")].alerts[2].level = "ALERT"
    /\ reports[LatestReport("kpi")].alerts[2].thresholds.alert_gt = 180000
    /\ reports[LatestReport("kpi")].max_downtime_event_sec = 360000

C27_IsReport == result.op = "cmd_report_kpi" /\ result.exit = 0

\* the top-level field of the report that repeats an alert's value
C27_TopLevel(k) ==
    CASE k = 1 -> result.report.scrap_rate
      [] k = 2 -> result.report.max_downtime_event_sec
      [] k = 3 -> result.report.cycle_time_p95_sec

\* C27 as claimed: every alert record of a written KPI report has the level
\* that its reported (rounded) value gives with its thresholds, and the
\* reported value equals the top-level field of the same report.
C27_Original_LevelOfReportedValue ==
    C27_IsReport =>
        \A k \in 1..3 :
            LET a == result.report.alerts[k]
            IN  /\ a.level = C5_LevelBy(a.value, a.thresholds)
                /\ a.value = C27_TopLevel(k)

\* C27 as amended: every alert record has the level that the value handed
\* to the alert function gives with the record's thresholds (the scrap rate
\* rounded to 4 decimals, the longest downtime unrounded, the cycle p95
\* rounded to 2 decimals); the reported value is that value rounded (to 1
\* decimal for the two durations) and equals the top-level field; so the
\* level is that of the reported value for the scrap rate always, and for a
\* duration whenever it is a whole number of tenths of a second.
C27_LevelOfPassedValue ==
    C27_IsReport =>
        \A k \in 1..3 :
            LET a == result.report.alerts[k]
                v == C5_Value(k)
            IN  /\ a.level = C5_LevelBy(v, a.thresholds)
                /\ a.value = C27_TopLevel(k)
                /\ a.value - v <= 5 /\ v - a.value <= 5 /\ a.value % 10 = 0
                /\ (k = 1 \/ v % 10 = 0) =>
                       a.value = v /\ a.level = C5_LevelBy(a.value, a.thresholds)

\* C27 witness: the longest downtime is 100.04 s and alert_gt is 100 s: the
\* record says ALERT with a value of 100.0
C27_Witness ==
    /\ C27_IsReport
    /\ result.max_dt = Seconds(100) + 4
    /\ result.report.alerts[2] =
          [metric |-> "downtime_event_sec", value |-> Seconds(100),
           level |-> "ALERT",
           thresholds |-> [warning_gt |-> Seconds(50), alert_gt |-> Seconds(100)]]
    /\ result.report.max_downtime_event_sec = Seconds(100)

----------------------------------------------------------------------------
(* cli.py: _drilldown_report and cmd_report_drilldown *)

TOP_N_DEFAULT == 5

\* the columns of a table; an empty table is taken to have every column
HasColumn(df, c) == df = <<>> \/ c \in DOMAIN df[1]

\* df[c].dropna(), as a sequence in row order
ColumnDropNa(df, c) ==
    LET col == [i \in 1..Len(df) |-> df[i][c]]
    IN  SelectSeq(col, LAMBDA x : x # NA)

\* the possible results of _max_downtime_event_seconds(events): one for each
\* order the unstable sort may leave rows of equal timestamp in
DowntimeOutcomes(events_table) ==
    {_max_downtime_event_seconds(er) : er \in TsSortedOrders(ErFrame(events_table))}

\* _compute_kpi_plus, max_dt being what _max_downtime_event_seconds returned
_compute_kpi_plus(events_table, quality_table, max_dt) ==
    LET kpis == compute_kpis(events_table, quality_table)
    IN  [jobs_total |-> kpis.jobs_total,
         jobs_nok |-> kpis.jobs_nok,
         scrap_rate |-> kpis.scrap_rate,
         cycle_time_sec |-> kpis.cycle_time_sec,
         arc_on_time_sec |-> kpis.arc_on_time_sec,
         top_error_codes |-> kpis.top_error_codes,
         max_downtime_event_sec |-> RoundTo(max_dt, 10),
         cycle_time_p95_sec |-> RoundTo(P95OrZero(kpis), 10)]

\* events[events["cell_id"] == cell_id]
RowsOfCell(df, cell_id) == SelectSeq(df, LAMBDA r : r.cell_id = cell_id)

\* df[(df["cell_id"].astype(str) == cell_id) & (df["robot_id"].astype(str) == robot_id)]
RowsOfRobot(df, cell_id, robot_id) ==
    SelectSeq(df, LAMBDA r : r.cell_id = cell_id /\ r.robot_id = robot_id)

\* faulty variant: only the cells of the quality table are visited
DrilldownCellsOfQuality(events_table, quality_table) ==
    Rows(ColumnDropNa(quality_table, "cell_id"))

\* the cells the per-cell loop visits
DrilldownCells(events_table, quality_table) ==
    Rows(ColumnDropNa(quality_table, "cell_id")) \cup
    Rows(ColumnDropNa(events_table, "cell_id"))

\* set(zip(df["cell_id"].dropna().astype(str), df["robot_id"].dropna().astype(str))):
\* each column drops its own missing cells before the two are zipped
ZipPairs(df) ==
    LET cells == ColumnDropNa(df, "cell_id")
        robots == ColumnDropNa(df, "robot_id")
    IN  {<<cells[k], robots[k]>> : k \in (1..Len(cells)) \cap (1..Len(robots))}

\* the pairs the per-robot loop visits: those with rows in one of the tables
DrilldownPairs(events_table, quality_table) ==
    IF HasColumn(events_table, "robot_id") /\ HasColumn(quality_table, "robot_id")
    THEN {p \in ZipPairs(quality_table) \cup ZipPairs(events_table) :
             \/ RowsOfRobot(events_table, p[1], p[2]) # <<>>
             \/ RowsOfRobot(quality_table, p[1], p[2]) # <<>>}
    ELSE {}

RECURSIVE SortedCells(_)
\* sorted(cells) as a sequence
SortedCells(S) ==
    IF S = {} THEN <<>>
    ELSE LET c == CHOOSE x \in S : \A y \in S : IdRank(x) <= IdRank(y)
         IN  <<c>> \o SortedCells(S \ {c})

RECURSIVE SortedPairs(_)
\* sorted(pairs) as a sequence: by cell, then by robot
SortedPairs(S) ==
    IF S = {} THEN <<>>
    ELSE LET p == CHOOSE x \in S : \A y \in S :
                      \/ IdRank(x[1]) < IdRank(y[1])
                      \/ (x[1] = y[1] /\ IdRank(x[2]) <= IdRank(y[2]))
         IN  <<p>> \o SortedPairs(S \ {p})

\* the summary of one cell
CellSummary(cell_id, k) ==
    [cell_id |-> cell_id,
     jobs_total |-> k.jobs_total,
     jobs_nok |-> k.jobs_nok,
     scrap_rate |-> k.scrap_rate,
     max_downtime_event_sec |-> k.max_downtime_event_sec,
     cycle_time_p95_sec |-> k.cycle_time_p95_sec]

\* the summary of one robot of a cell
RobotSummary(cell_id, robot_id, k) ==
    [cell_id |-> cell_id,
     robot_id |-> robot_id,
     jobs_total |-> k.jobs_total,
     jobs_nok |-> k.jobs_nok,
     scrap_rate |-> k.scrap_rate,
     max_downtime_event_sec |-> k.max_downtime_event_sec,
     cycle_time_p95_sec |-> k.cycle_time_p95_sec]

\* vals[:n] of Python: a negative n counts from the end
PySliceTo(xs, n) ==
    IF n >= 0 THEN HeadN(xs, n)
    ELSE IF Len(xs) + n > 0 THEN HeadN(xs, Len(xs) + n) ELSE <<>>

\* vals.sort(key=lambda r: float(r.get(key)), reverse=True): a stable sort,
\* rows of equal key stay in their order
SortDescending(rows, key) ==
    [k \in 1..Len(rows) |->
        rows[CHOOSE i \in 1..Len(rows) :
                Cardinality({j \in 1..Len(rows) :
                    \/ rows[j][key] > rows[i][key]
                    \/ (rows[j][key] = rows[i][key] /\ j < i)}) = k - 1]]

\* faulty variant: the rows are ranked ascending
TopAscending(rows, key, top_n) ==
    LET desc == SortDescending(rows, key)
    IN  PySliceTo([k \in 1..Len(desc) |-> desc[Len(desc) + 1 - k]], top_n)

\* _top(rows, key).  Every summary holds a number under each of the three
\* metric keys (kpi.py line 42, cli.py lines 186 and 189), so the filter on
\* "is not None" keeps every row and float() never fails.
_top(rows, key, top_n) == PySliceTo(SortDescending(rows, key), top_n)

\* faulty variant: the error report carries empty counts as well
DrilldownErrorReportWithCounts(started_at) ==
    [generated_at |-> started_at,
     error |-> "Missing 'cell_id' in events/quality. Drilldown needs cell_id columns.",
     counts |-> [cells |-> 0, robots |-> 0]]

\* the report returned when a table has no cell_id column
DrilldownErrorReport(started_at) ==
    [generated_at |-> started_at,
     error |-> "Missing 'cell_id' in events/quality. Drilldown needs cell_id columns."]

\* _drilldown_report; md gives, for each cell <<c>> and each pair <<c, r>>,
\* what _max_downtime_event_seconds returned for its rows
_drilldown_report(events_table, quality_table, top_n, started_at, md) ==
    IF ~HasColumn(events_table, "cell_id") \/ ~HasColumn(quality_table, "cell_id")
    THEN DrilldownErrorReport(started_at)
    ELSE
    LET cells == SortedCells(DrilldownCells(events_table, quality_table))
        pairs == SortedPairs(DrilldownPairs(events_table, quality_table))
        per_cell ==
            [n \in 1..Len(cells) |->
                CellSummary(cells[n],
                    _compute_kpi_plus(RowsOfCell(events_table, cells[n]),
                                      RowsOfCell(quality_table, cells[n]),
                                      md[<<cells[n]>>]))]
        per_robot ==
            [n \in 1..Len(pairs) |->
                RobotSummary(pairs[n][1], pairs[n][2],
                    _compute_kpi_plus(
                        RowsOfRobot(events_table, pairs[n][1], pairs[n][2]),
                        RowsOfRobot(quality_table, pairs[n][1], pairs[n][2]),
                        md[pairs[n]]))]
    IN  [generated_at |-> started_at,
         counts |-> [cells |-> Len(per_cell), robots |-> Len(per_robot)],
         per_cell |-> per_cell,
         per_robot |-> per_robot,
         worst_offenders |->
             [cells_by_scrap_rate |-> _top(per_cell, "scrap_rate", top_n),
              cells_by_max_downtime |-> _top(per_cell, "max_downtime_event_sec", top_n),
              cells_by_cycle_p95 |-> _top(per_cell, "cycle_time_p95_sec", top_n),
              robots_by_scrap_rate |-> _top(per_robot, "scrap_rate", top_n),
              robots_by_max_downtime |-> _top(per_robot, "max_downtime_event_sec", top_n),
              robots_by_cycle_p95 |-> _top(per_robot, "cycle_time_p95_sec", top_n)]]

\* the choices of md that the rows allow
DowntimeChoices(events_table, quality_table) ==
    IF ~HasColumn(events_table, "cell_id") \/ ~HasColumn(quality_table, "cell_id")
    THEN {[e \in {} |-> 0]}
    ELSE
    LET cells == {<<c>> : c \in DrilldownCells(events_table, quality_table)}
        pairs == DrilldownPairs(events_table, quality_table)
        outcomes == [e \in cells \cup pairs |->
                        IF Len(e) = 1
                        THEN DowntimeOutcomes(RowsOfCell(events_table, e[1]))
                        ELSE DowntimeOutcomes(RowsOfRobot(events_table, e[1], e[2]))]
    IN  {md \in [cells \cup pairs -> UNION {outcomes[e] : e \in cells \cup pairs}] :
            \A e \in cells \cup pairs : md[e] \in outcomes[e]}

\* cmd_report_drilldown on the tables read from the two CSV files: the
\* report is written under the stamp of the current second and under latest
cmd_report_drilldown(events_table, quality_table, top_n) ==
    \E md \in DowntimeChoices(events_table, quality_table) :
        \E report \in {_drilldown_report(events_table, quality_table, top_n, clock, md)} :
            /\ reports' = WriteText(
                   WriteText(reports, StampedReport("drilldown", clock), report),
                   LatestReport("drilldown"), report)
            /\ result' = [op |-> "cmd_report_drilldown", exit |-> 0,
                          stamp |-> clock, top_n |-> top_n, report |-> report]

----------------------------------------------------------------------------
(* The drilldown specification: the command is run on a pair of staged     *)
(* tables, with the top_n its caller asked for.                            *)

MaxDrilldownRows == 2

\* a cycle of 90 s in cell C01; in cell C02 an ERROR with a RESET 100 s
\* later and one at the same instant; a row without a cell
DrilldownEventRows ==
    {EventRow(T0, "C01", "R01", "J1", "START_CYCLE", NA),
     EventRow(T90, "C01", "R01", "J1", "END_CYCLE", NA),
     EventRow(T0, "C02", "R01", "J2", "ERROR", "CDD1"),
     EventRow(T100, "C02", "R01", "J2", "RESET", NA),
     EventRow(T0, "C02", "R01", "J2", "RESET", NA),
     EventRow(T0, NA, "R02", "J3", "ERROR", "CDD1")}

\* jobs of two cells and two robots, OK and NOK; a row without a cell
DrilldownQualityRows ==
    {QualityRow("J1", "C01", "R01", "OK"),
     QualityRow("J2", "C02", "R01", "NOK"),
     QualityRow("J3", "C01", "R02", "NOK"),
     QualityRow("J4", NA, "R01", "OK")}

\* total quality rows of one cell, the first nok of them NOK
QualityOfCell(cell, nok, total) ==
    [i \in 1..total |->
        QualityRow("J1", cell, "R01", IF i <= nok THEN "NOK" ELSE "OK")]

\* four cells with scrap rates 0.5, 0.3, 0.9 and 0.1
FourCellsQuality ==
    QualityOfCell("C01", 1, 2) \o QualityOfCell("C02", 3, 10) \o
    QualityOfCell("C03", 9, 10) \o QualityOfCell("C04", 1, 10)

\* a table read from a CSV file that has no cell_id column
WithoutCellColumn(df) ==
    [i \in 1..Len(df) |-> [c \in DOMAIN df[i] \ {"cell_id"} |-> df[i][c]]]

TopNSamples == {0, 1, 2, TOP_N_DEFAULT}

DrilldownInputs ==
    {<<ev, qu>> : ev \in TablesOver(DrilldownEventRows, MaxDrilldownRows),
                  qu \in TablesOver(DrilldownQualityRows, MaxDrilldownRows)} \cup
    {<<ev, FourCellsQuality>> : ev \in TablesOver(DrilldownEventRows, 1)} \cup
    {<<WithoutCellColumn(ev), qu>> :
        ev \in TablesOver(DrilldownEventRows, 1) \ {<<>>},
        qu \in TablesOver(DrilldownQualityRows, 1)} \cup
    {<<ev, WithoutCellColumn(qu)>> :
        ev \in TablesOver(DrilldownEventRows, 1),
        qu \in TablesOver(DrilldownQualityRows, 1) \ {<<>>}}

InitDrilldown ==
    /\ config_file = FileMissing
    /\ thresholds = PyNone
    /\ \E input \in DrilldownInputs : events = input[1] /\ quality = input[2]
    /\ result = NoResult
    /\ reports = NoReports
    /\ clock = 0
    /\ data_files = NoFiles
    /\ runner = Idle
    /\ invocations = 0
    /\ writers = NoWriters

\* weld_pipeline report-drilldown --events ... --quality ... --top-n N
CmdReportDrilldown ==
    /\ result = NoResult
    /\ \E top_n \in TopNSamples : cmd_report_drilldown(events, quality, top_n)
    /\ UNCHANGED <<config_file, thresholds, events, quality, clock, data_files, runner, invocations,
                   writers>>

NextDrilldown == CmdReportDrilldown

SpecDrilldown == InitDrilldown /\ [][NextDrilldown]_vars


----------------------------------------------------------------------------
(* Claims about the drilldown report *)

C15_IsDrilldown ==
    result.op = "cmd_report_drilldown" /\ "worst_offenders" \in DOMAIN result.report

\* the six lists: name, the summaries they rank, the metric they rank by
C15_Lists ==
    {<<"cells_by_scrap_rate", "per_cell", "scrap_rate">>,
     <<"cells_by_max_downtime", "per_cell", "max_downtime_event_sec">>,
     <<"cells_by_cycle_p95", "per_cell", "cycle_time_p95_sec">>,
     <<"robots_by_scrap_rate", "per_robot", "scrap_rate">>,
     <<"robots_by_max_downtime", "per_robot", "max_downtime_event_sec">>,
     <<"robots_by_cycle_p95", "per_robot", "cycle_time_p95_sec">>}

C15_Min(a, b) == IF a < b THEN a ELSE b

\* C15: each worst-offender list holds summaries of the report's per_cell
\* (per_robot) list, each at most once, in descending order of the list's
\* metric; its length is min(N, number of summaries), and no summary left
\* out has a strictly greater metric than one that is in the list.
C15_WorstOffenders ==
    C15_IsDrilldown =>
        \A l \in C15_Lists :
            LET top == result.report.worst_offenders[l[1]]
                all == result.report[l[2]]
                key == l[3]
                picked == {i \in 1..Len(all) : \E k \in 1..Len(top) : top[k] = all[i]}
            IN  /\ \A k \in 1..Len(top) : \E i \in 1..Len(all) : top[k] = all[i]
                /\ \A j, k \in 1..Len(top) : top[j] = top[k] => j = k
                /\ \A j, k \in 1..Len(top) : j < k => top[j][key] >= top[k][key]
                /\ Len(top) = C15_Min(result.top_n, Len(all))
                /\ \A i \in (1..Len(all)) \ picked :
                      \A k \in 1..Len(top) : all[i][key] <= top[k][key]

\* C15 witness: cells with scrap rates 0.5, 0.3, 0.9 and 0.1 and N = 2 give
\* the cells of rates 0.9 and 0.5, in this order
C15_Witness ==
    /\ C15_IsDrilldown
    /\ quality = FourCellsQuality
    /\ result.top_n = 2
    /\ [k \in 1..4 |-> result.report.per_cell[k].scrap_rate] =
           <<50000, 30000, 90000, 10000>>
    /\ [k \in 1..2 |-> result.report.worst_offenders.cells_by_scrap_rate[k].cell_id] =
           <<"C03", "C01">>
    /\ Len(result.report.worst_offenders.cells_by_scrap_rate) = 2

\* a table has no cell_id column
C16_NoCellColumn(df) == df # <<>> /\ "cell_id" \notin DOMAIN df[1]

\* C16: when the events or the quality table has no cell_id column the
\* command exits with 0, and the report it returns and writes to the stamped
\* and to the latest file holds generated_at and error and nothing else.
C16_ErrorReport ==
    (result.op = "cmd_report_drilldown"
        /\ (C16_NoCellColumn(events) \/ C16_NoCellColumn(quality))) =>
        /\ result.exit = 0
        /\ DOMAIN result.report = {"generated_at", "error"}
        /\ StampedReport("drilldown", result.stamp) \in DOMAIN reports
        /\ reports[StampedReport("drilldown", result.stamp)] = result.report
        /\ LatestReport("drilldown") \in DOMAIN reports
        /\ reports[LatestReport("drilldown")] = result.report

\* C16 witness: an events table without a cell_id column
C16_Witness ==
    /\ result.op = "cmd_report_drilldown"
    /\ C16_NoCellColumn(events)
    /\ ~C16_NoCellColumn(quality)
    /\ "error" \in DOMAIN reports[LatestReport("drilldown")]


----------------------------------------------------------------------------
(* dashboard/pipeline_runner.py: the snapshot step *)

\* the last suffix unique_timestamped_path tries, and falls back to
SNAPSHOT_SUFFIX_LAST == 99

\* <kind>_report_<stamp>_<i:02d>.json
SuffixedReport(kind, stamp, i) == <<kind, "stamped", stamp, i>>

\* unique_timestamped_path(prefix, ts) in a reports directory holding files
unique_timestamped_path(files, kind, ts) ==
    LET base == StampedReport(kind, ts)
        free == {i \in 1..SNAPSHOT_SUFFIX_LAST :
                    SuffixedReport(kind, ts, i) \notin DOMAIN files}
    IN  IF base \notin DOMAIN files THEN base
        ELSE IF free # {} THEN SuffixedReport(kind, ts, SetMin(free))
        ELSE SuffixedReport(kind, ts, SNAPSHOT_SUFFIX_LAST)

\* if LATEST.exists(): shutil.copy2(LATEST, unique_timestamped_path(prefix, ts))
CopyLatest(files, kind, ts) ==
    IF LatestReport(kind) \in DOMAIN files
    THEN WriteText(files, unique_timestamped_path(files, kind, ts),
                   files[LatestReport(kind)])
    ELSE files

\* snapshot_latest_reports_to_timestamped(save_drilldown) at second ts: the
\* reports directory it leaves
snapshot_latest_reports_to_timestamped(files, ts, save_drilldown) ==
    LET after_kpi == CopyLatest(files, "kpi", ts)
        after_dq == CopyLatest(after_kpi, "dq", ts)
    IN  IF save_drilldown THEN CopyLatest(after_dq, "drilldown", ts)
        ELSE after_dq

----------------------------------------------------------------------------
(* The report files specification: the transform, report-kpi and           *)
(* report-drilldown commands and the dashboard's snapshot step are invoked *)
(* one after the other, each command on input files of the caller's        *)
(* choice, while the clock advances.                                       *)

MaxInvocations == 3

\* two pairs of input files: a cycle of 90 s with an OK job, and a downtime
\* of 100 s with a NOK job
FileInputs ==
    {<<<<EventRow(T0, "C01", "R01", "J1", "START_CYCLE", NA),
         EventRow(T90, "C01", "R01", "J1", "END_CYCLE", NA)>>,
       <<QualityRow("J1", "C01", "R01", "OK")>>>>,
     <<<<EventRow(T0, "C02", "R01", "J2", "ERROR", "CDD1"),
         EventRow(T100, "C02", "R01", "J2", "RESET", NA)>>,
       <<QualityRow("J2", "C02", "R01", "NOK")>>>>}

InitFiles ==
    /\ config_file = FileMissing
    /\ thresholds = PyNone
    /\ events = <<>>
    /\ quality = <<>>
    /\ result = NoResult
    /\ reports = NoReports
    /\ clock = 0
    /\ data_files = NoFiles
    /\ runner = Idle
    /\ invocations = 0
    /\ writers = NoWriters

\* weld_pipeline transform --events ... --quality ...
InvokeTransform ==
    /\ invocations < MaxInvocations
    /\ \E input \in FileInputs :
          /\ events' = input[1]
          /\ quality' = input[2]
          /\ cmd_transform(input[1], input[2])
    /\ invocations' = invocations + 1
    /\ UNCHANGED <<config_file, thresholds, clock, runner, writers>>

\* weld_pipeline report-kpi --events ... --quality ...
InvokeReportKpi ==
    /\ invocations < MaxInvocations
    /\ \E input \in FileInputs :
          /\ events' = input[1]
          /\ quality' = input[2]
          /\ cmd_report_kpi(input[1], input[2])
    /\ invocations' = invocations + 1
    /\ UNCHANGED <<config_file, clock, data_files, runner, writers>>

\* weld_pipeline report-drilldown --events ... --quality ...
InvokeReportDrilldown ==
    /\ invocations < MaxInvocations
    /\ \E input \in FileInputs :
          /\ events' = input[1]
          /\ quality' = input[2]
          /\ cmd_report_drilldown(input[1], input[2], TOP_N_DEFAULT)
    /\ invocations' = invocations + 1
    /\ UNCHANGED <<config_file, thresholds, clock, data_files, runner, writers>>

\* the dashboard saves timestamped copies of the latest reports
SnapshotLatestReports ==
    /\ invocations < MaxInvocations
    /\ \E save_drilldown \in BOOLEAN :
          /\ reports' = snapshot_latest_reports_to_timestamped(
                            reports, clock, save_drilldown)
          /\ result' = [op |-> "snapshot_latest_reports_to_timestamped",
                        stamp |-> clock, save_drilldown |-> save_drilldown]
    /\ invocations' = invocations + 1
    /\ UNCHANGED <<config_file, thresholds, events, quality, clock,
                   data_files, runner, writers>>

NextFiles ==
    \/ Tick
    \/ InvokeTransform
    \/ InvokeReportKpi
    \/ InvokeReportDrilldown
    \/ SnapshotLatestReports

SpecFiles == InitFiles /\ [][NextFiles]_vars

----------------------------------------------------------------------------
(* Claims about the report files *)

ReportKinds == {"dq", "kpi", "drilldown"}

C18_IsTimestamped(f) == f[2] = "stamped"

\* C18: a timestamped report file, once written, stays in the reports
\* directory with the content it was written with, whatever is invoked later
\* (a later report of the same kind and second goes to a new name).
C18_TimestampedImmutable ==
    [][\A f \in DOMAIN reports :
          C18_IsTimestamped(f) =>
              f \in DOMAIN reports' /\ reports'[f] = reports[f]]_vars

\* the part of C18 the snapshot step keeps: it changes no file that exists
C18_SnapshotStepAddsOnly ==
    [][result'.op = "snapshot_latest_reports_to_timestamped"
           /\ invocations' = invocations + 1 =>
       \A f \in DOMAIN reports :
           f \in DOMAIN reports' /\ reports'[f] = reports[f]]_vars


\* the command that produces the report of a kind
ReportCommand(kind) ==
    CASE kind = "dq" -> "cmd_transform"
      [] kind = "kpi" -> "cmd_report_kpi"
      [] kind = "drilldown" -> "cmd_report_drilldown"

\* the content of <kind>_report_latest.json, if the file exists
C19_Latest(files, kind) ==
    IF LatestReport(kind) \in DOMAIN files
    THEN <<files[LatestReport(kind)]>> ELSE <<>>

\* this step is an invocation that produced a report of the kind
C19_Produced(kind) ==
    /\ invocations' = invocations + 1
    /\ result'.op = ReportCommand(kind)
    /\ result'.exit = 0

\* C19: an invocation that produces a report of a kind leaves that report
\* in <kind>_report_latest.json and in the timestamped file of its second;
\* every other step leaves <kind>_report_latest.json as it was. So the
\* latest file of a kind always holds the report of the most recent
\* invocation that produced the kind.
C19_LatestIsMostRecent ==
    [][\A kind \in ReportKinds :
          IF C19_Produced(kind)
          THEN /\ C19_Latest(reports', kind) = <<result'.report>>
               /\ StampedReport(kind, result'.stamp) \in DOMAIN reports'
               /\ reports'[StampedReport(kind, result'.stamp)] = result'.report
          ELSE C19_Latest(reports', kind) = C19_Latest(reports, kind)]_vars

\* a second kpi report has replaced the first in kpi_report_latest.json (the
\* first is still in the timestamped file of an earlier second), and the dq
\* report written before both is still the latest of its kind
C19_Witness ==
    /\ result.op = "cmd_report_kpi"
    /\ invocations = 3
    /\ C19_Latest(reports, "kpi") = <<result.report>>
    /\ C19_Latest(reports, "dq") # <<>>
    /\ \E stamp \in 0..MaxClock :
          /\ stamp < result.stamp
          /\ StampedReport("kpi", stamp) \in DOMAIN reports
          /\ reports[StampedReport("kpi", stamp)] # result.report

----------------------------------------------------------------------------
(* cli.py: cmd_generate; dashboard/pipeline_runner.py: run_pipeline_steps *)

\* events.to_csv(path, index=False) of write_outputs
RawToCsv(df) ==
    [i \in 1..Len(df) |-> [c \in DOMAIN df[i] |-> CsvField(df[i][c])]]

\* cmd_generate: the generated tables are written to data/raw under the
\* stamp of the current second
cmd_generate(generated) ==
    /\ data_files' =
           WriteText(WriteText(data_files, RawFile("robot_events", clock),
                               RawToCsv(generated[1])),
                     RawFile("quality_checks", clock), RawToCsv(generated[2]))
    /\ result' = [op |-> "cmd_generate", exit |-> 0, stamp |-> clock]

\* the stages of run_pipeline_steps, in the order of its code
STAGES == <<"generate", "transform", "report-kpi", "report-drilldown">>

\* what run_pipeline_steps returns when the raw (staged) files are missing
MISSING_RAW == 2
MISSING_STAGED == 3

\* the exit code of a python process that ends with an uncaught exception
UNCAUGHT_EXIT == 1

\* latest_file(pattern, base): the newest file of the kind in the directory,
\* <<>> if there is none
latest_file(files, kind, dir) ==
    LET found == {f \in DOMAIN files : f[1] = kind /\ f[2] = dir}
    IN  IF found = {} THEN <<>>
        ELSE <<CHOOSE f \in found : \A g \in found : g[3] <= f[3]>>

\* run_pipeline_steps has been called
Called(with_drilldown) ==
    [pc |-> "generate", with_drilldown |-> with_drilldown,
     started |-> <<>>, codes |-> <<>>, staged |-> <<>>, returned |-> <<>>]

\* return rc, log
Return(r, rc) == [r EXCEPT !.pc = "done", !.returned = <<rc>>]

\* faulty variant: the exit code of the stage is not looked at
AfterStageIgnoresExit(r, stage, rc, next) ==
    LET ran == [r EXCEPT !.started = Append(@, stage), !.codes = Append(@, rc)]
    IN  IF next = "return" THEN Return(ran, 0) ELSE [ran EXCEPT !.pc = next]

\* rc, out = run_cmd(cmd); if rc != 0: return rc, log -- otherwise the run
\* goes on to the next stage, or returns 0 after the last one
AfterStage(r, stage, rc, next) ==
    LET ran == [r EXCEPT !.started = Append(@, stage), !.codes = Append(@, rc)]
    IN  IF rc # 0 THEN Return(ran, rc)
        ELSE IF next = "return" THEN Return(ran, 0)
        ELSE [ran EXCEPT !.pc = next]

\* the subprocess of the stage ends with an uncaught exception before it
\* has written anything
StageCrashes(stage, command) ==
    /\ result' = [op |-> command, exit |-> UNCAUGHT_EXIT]
    /\ runner' = AfterStage(runner, stage, UNCAUGHT_EXIT, "return")
    /\ UNCHANGED <<thresholds, events, quality, reports, data_files, writers>>

\* the stage after report-kpi
AfterKpi(r) == IF r.with_drilldown THEN "report-drilldown" ELSE "return"

----------------------------------------------------------------------------
(* The pipeline specification: the dashboard calls run_pipeline_steps once; *)
(* each stage is a subprocess that runs its command to the end or crashes, *)
(* the clock advances between the stages, and the data directories, which  *)
(* may hold the files of an earlier run, may be emptied by someone else.   *)

\* the files an earlier run left in data/raw and data/staged
StaleFiles ==
    LET input == CHOOSE input \in FileInputs : input[2][1].result = "OK"
    IN  WriteText(WriteText(WriteText(WriteText(NoFiles,
            RawFile("robot_events", 0), RawToCsv(input[1])),
            RawFile("quality_checks", 0), RawToCsv(input[2])),
            StagedFile("robot_events", 0),
            EventsToCsv(parse_and_clean_events(input[1]))),
            StagedFile("quality_checks", 0),
            QualityToCsv(parse_and_clean_quality(input[2])))

InitPipeline ==
    /\ config_file = FileMissing
    /\ thresholds = PyNone
    /\ events = <<>>
    /\ quality = <<>>
    /\ result = NoResult
    /\ reports = NoReports
    /\ clock = 0
    /\ data_files \in {NoFiles, StaleFiles}
    /\ runner = Idle
    /\ invocations = 0
    /\ writers = NoWriters

\* the dashboard's button: run_pipeline_steps(days, cells, robots, seed,
\* with_drilldown)
StartPipeline ==
    /\ runner.pc = "idle"
    /\ \E with_drilldown \in BOOLEAN : runner' = Called(with_drilldown)
    /\ UNCHANGED <<config_file, thresholds, events, quality, result, reports,
                   clock, data_files, invocations, writers>>

\* the generate stage
RunGenerate ==
    /\ runner.pc = "generate"
    /\ \/ /\ \E generated \in FileInputs : cmd_generate(generated)
          /\ runner' = AfterStage(runner, "generate", result'.exit, "transform")
          /\ UNCHANGED <<thresholds, events, quality, reports, writers>>
       \/ StageCrashes("generate", "cmd_generate")
    /\ UNCHANGED <<config_file, clock, invocations, writers>>

\* the raw files are looked up, then the transform stage runs on them
RunTransform ==
    /\ runner.pc = "transform"
    /\ LET events_raw == latest_file(data_files, "robot_events", "raw")
           quality_raw == latest_file(data_files, "quality_checks", "raw")
       IN  IF events_raw = <<>> \/ quality_raw = <<>>
           THEN /\ runner' = Return(runner, MISSING_RAW)
                /\ UNCHANGED <<thresholds, events, quality, result, reports,
                               data_files, writers>>
           ELSE \/ /\ events' = read_csv(data_files[events_raw[1]])
                   /\ quality' = read_csv(data_files[quality_raw[1]])
                   /\ cmd_transform(read_csv(data_files[events_raw[1]]),
                                    read_csv(data_files[quality_raw[1]]))
                   /\ runner' = AfterStage(runner, "transform", result'.exit,
                                           "report-kpi")
                   /\ UNCHANGED thresholds
                \/ StageCrashes("transform", "cmd_transform")
    /\ UNCHANGED <<config_file, clock, invocations, writers>>

\* the staged files are looked up, then the report-kpi stage runs on them
RunReportKpi ==
    /\ runner.pc = "report-kpi"
    /\ LET events_staged == latest_file(data_files, "robot_events", "staged")
           quality_staged == latest_file(data_files, "quality_checks", "staged")
           found == [runner EXCEPT !.staged = events_staged \o quality_staged]
       IN  IF events_staged = <<>> \/ quality_staged = <<>>
           THEN /\ runner' = Return(runner, MISSING_STAGED)
                /\ UNCHANGED <<thresholds, events, quality, result, reports, writers>>
           ELSE \/ /\ events' = read_csv(data_files[events_staged[1]])
                   /\ quality' = read_csv(data_files[quality_staged[1]])
                   /\ cmd_report_kpi(read_csv(data_files[events_staged[1]]),
                                     read_csv(data_files[quality_staged[1]]))
                   /\ runner' = AfterStage(found, "report-kpi", result'.exit,
                                           AfterKpi(runner))
                \/ /\ result' = [op |-> "cmd_report_kpi", exit |-> UNCAUGHT_EXIT]
                   /\ runner' = AfterStage(found, "report-kpi", UNCAUGHT_EXIT,
                                           "return")
                   /\ UNCHANGED <<thresholds, events, quality, reports, writers>>
    /\ UNCHANGED <<config_file, clock, data_files, invocations, writers>>

\* the report-drilldown stage runs on the staged files found before
\* report-kpi; pd.read_csv raises if one of them is gone
RunReportDrilldown ==
    /\ runner.pc = "report-drilldown"
    /\ \/ /\ \A i \in 1..2 : runner.staged[i] \in DOMAIN data_files
          /\ events' = read_csv(data_files[runner.staged[1]])
          /\ quality' = read_csv(data_files[runner.staged[2]])
          /\ cmd_report_drilldown(read_csv(data_files[runner.staged[1]]),
                                  read_csv(data_files[runner.staged[2]]),
                                  TOP_N_DEFAULT)
          /\ runner' = AfterStage(runner, "report-drilldown", result'.exit,
                                  "return")
          /\ UNCHANGED <<thresholds, data_files, writers>>
       \/ StageCrashes("report-drilldown", "cmd_report_drilldown")
    /\ UNCHANGED <<config_file, clock, invocations, writers>>

\* someone else empties data/raw or data/staged
EmptyDataDir ==
    /\ \E dir \in {"raw", "staged"} :
          /\ \E f \in DOMAIN data_files : f[2] = dir
          /\ data_files' =
                 [f \in {g \in DOMAIN data_files : g[2] # dir} |-> data_files[f]]
    /\ UNCHANGED <<config_file, thresholds, events, quality, result, reports,
                   clock, runner, invocations, writers>>

NextPipeline ==
    \/ Tick
    \/ StartPipeline
    \/ RunGenerate
    \/ RunTransform
    \/ RunReportKpi
    \/ RunReportDrilldown
    \/ EmptyDataDir

SpecPipeline == InitPipeline /\ [][NextPipeline]_vars


----------------------------------------------------------------------------
(* Claims about run_pipeline_steps *)

\* the stages a run is asked for
C20_Requested(r) == IF r.with_drilldown THEN 4 ELSE 3

\* the order of the stages, and the exit code returned
C20_Order(r) ==
    /\ Len(r.started) <= C20_Requested(r)
    /\ Len(r.codes) = Len(r.started)
    /\ \A i \in 1..Len(r.started) : r.started[i] = STAGES[i]
    /\ \A i \in 1..(Len(r.started) - 1) : r.codes[i] = 0
    /\ r.pc = "done" =>
          LET rc == r.returned[1]
              n == Len(r.started)
          IN  /\ n >= 1
              /\ r.codes[n] # 0 => rc = r.codes[n]
              /\ r.codes[n] = 0 =>
                    \/ rc = MISSING_RAW /\ n = 1
                    \/ rc = MISSING_STAGED /\ n = 2
                    \/ rc = 0 /\ n = C20_Requested(r)
              /\ rc = 0 => \A i \in 1..n : r.codes[i] = 0

\* a stage is started in this step
C20_Starts(stage) ==
    /\ runner.pc = stage
    /\ Len(runner'.started) = Len(runner.started) + 1

\* the files the stage before wrote are there when a stage is started
C20_OutputExists ==
    /\ C20_Starts("transform") =>
          /\ result.op = "cmd_generate"
          /\ \A kind \in {"robot_events", "quality_checks"} :
                RawFile(kind, result.stamp) \in DOMAIN data_files
    /\ C20_Starts("report-kpi") =>
          /\ result.op = "cmd_transform"
          /\ \A kind \in {"robot_events", "quality_checks"} :
                StagedFile(kind, result.stamp) \in DOMAIN data_files
    /\ C20_Starts("report-drilldown") =>
          /\ result.op = "cmd_report_kpi"
          /\ StampedReport("kpi", result.stamp) \in DOMAIN reports

\* C20: the stages are started in the order generate, transform,
\* report-kpi, report-drilldown (the last only if asked for), each only
\* after the stage before it exited with 0 and with the files that stage
\* wrote in place; a stage that exits non-zero is the last one started and
\* its exit code is returned; 2 (3) is returned when the raw (staged)
\* files are missing; 0 is returned only if every stage asked for was
\* started and exited with 0.
C20_StagesInOrder ==
    /\ [](runner.pc # "idle" => C20_Order(runner))
    /\ [][C20_OutputExists]_vars

\* a run asked to make the drilldown report ends with the exit code of a
\* report-kpi stage that crashed, and report-drilldown was never started
C20_Witness ==
    /\ runner.pc = "done"
    /\ runner.with_drilldown
    /\ runner.started = <<"generate", "transform", "report-kpi">>
    /\ runner.codes = <<0, 0, UNCAUGHT_EXIT>>
    /\ runner.returned = <<UNCAUGHT_EXIT>>

\* the (cell_id, robot_id) combinations that occur together in a row
C24_PairsOf(df) ==
    {<<df[i].cell_id, df[i].robot_id>> :
        i \in {j \in 1..Len(df) : df[j].cell_id # NA /\ df[j].robot_id # NA}}

\* C24: when both tables have a robot_id column, per_robot holds exactly
\* one summary for every (cell_id, robot_id) combination that occurs
\* together in a row of the events or of the quality table, and none for
\* any other combination, also when other rows lack a cell_id or a robot_id.
C24_OneSummaryPerPair ==
    C15_IsDrilldown =>
        LET per_robot == result.report.per_robot
        IN  /\ {<<per_robot[i].cell_id, per_robot[i].robot_id>> :
                    i \in 1..Len(per_robot)}
                 = C24_PairsOf(events) \cup C24_PairsOf(quality)
            /\ Len(per_robot) =
                 Cardinality(C24_PairsOf(events) \cup C24_PairsOf(quality))


----------------------------------------------------------------------------
(* The dashboard status specification: dashboard/views.py reads the alert
   records of a KPI report and classifies the metrics of a per-cell row *)

\* the first alert record of the metric, or None
_get_alert(alerts, metric) ==
    LET hits == {i \in 1..Len(alerts) : alerts[i].metric = metric}
    IN  IF hits = {} THEN PyNone ELSE alerts[SetMin(hits)]

\* metric -> threshold pair, for the metrics the report has an alert of
thresholds_from_kpi_alerts(kpi) ==
    [metric \in {m \in METRICS : _get_alert(kpi.alerts, m) # PyNone} |->
        LET a == _get_alert(kpi.alerts, metric)
        IN  Pair(a.thresholds.warning_gt, a.thresholds.alert_gt)]

\* thrs.get(metric)
ThrsGet(thrs, metric) ==
    IF metric \in DOMAIN thrs THEN thrs[metric] ELSE PyNone

_status_for_value(value, thr) ==
    IF value.null \/ thr = PyNone THEN "OK"
    ELSE IF thr.alert_gt > 0 /\ value.v >= thr.alert_gt THEN "ALERT"
    ELSE IF thr.warning_gt > 0 /\ value.v >= thr.warning_gt THEN "WARNING"
    ELSE "OK"

StatusOrder(s) == IF s = "ALERT" THEN 2 ELSE IF s = "WARNING" THEN 1 ELSE 0

\* the three statuses of a row, in the order the function computes them
CellStatuses(row, thrs) ==
    <<_status_for_value(row.scrap_rate, ThrsGet(thrs, "scrap_rate")),
      _status_for_value(row.max_downtime_event_sec,
                        ThrsGet(thrs, "downtime_event_sec")),
      _status_for_value(row.cycle_time_p95_sec,
                        ThrsGet(thrs, "cycle_time_p95_sec"))>>

\* max() returns the first of the statuses of the highest order
cell_overall_status(row, thrs) ==
    LET s == CellStatuses(row, thrs)
        top == SetMax({StatusOrder(s[i]) : i \in 1..3})
    IN  s[SetMin({i \in 1..3 : StatusOrder(s[i]) = top})]

DashboardPairs ==
    {Pair(w, a) : w \in {0, 8000}, a \in {0, 10000}} \cup {Pair(10000, 8000)}

\* the KPI reports the dashboard is given: the three alert records the
\* classifier wrote with one threshold pair, or no alert record at all
DashboardKpiSamples ==
    {[alerts |-> <<AlertRecord("scrap_rate", 0, p),
                   AlertRecord("downtime_event_sec", 0, p),
                   AlertRecord("cycle_time_p95_sec", 0, p)>>] :
        p \in DashboardPairs}
    \cup {[alerts |-> <<AlertRecord("scrap_rate", 0, p)>>] : p \in DashboardPairs}
    \cup {[alerts |-> <<>>]}

DashboardValues == {None} \cup {Some(v) : v \in {0, 8000, 8100, 10000, 10100}}

\* the metrics of one row of the per-cell table
DashboardRows ==
    [scrap_rate : DashboardValues, max_downtime_event_sec : DashboardValues,
     cycle_time_p95_sec : DashboardValues]

InitDashboard ==
    /\ config_file = FileMissing
    /\ thresholds = PyNone
    /\ events = <<>>
    /\ quality = <<>>
    /\ result = NoResult
    /\ reports \in {WriteText(NoReports, LatestReport("kpi"), kpi) :
                        kpi \in DashboardKpiSamples}
    /\ clock = 0
    /\ data_files = NoFiles
    /\ runner = Idle
    /\ invocations = 0
    /\ writers = NoWriters

\* the status column of one row of the per-cell table
CellOverallStatus ==
    /\ \E row \in DashboardRows :
         \E thrs \in {thresholds_from_kpi_alerts(reports[LatestReport("kpi")])} :
            result' = [op |-> "cell_overall_status", row |-> row,
                       thrs |-> thrs,
                       statuses |-> CellStatuses(row, thrs),
                       ret |-> cell_overall_status(row, thrs)]
    /\ UNCHANGED <<config_file, thresholds, events, quality, reports, clock,
                   data_files, runner, invocations, writers>>

NextDashboard == CellOverallStatus

SpecDashboard == InitDashboard /\ [][NextDashboard]_vars

\* the value of the row that the dashboard holds against a metric's pair
C28_RowValue(row, metric) ==
    IF metric = "scrap_rate" THEN row.scrap_rate
    ELSE IF metric = "downtime_event_sec" THEN row.max_downtime_event_sec
    ELSE row.cycle_time_p95_sec

C28_MetricIndex(metric) ==
    IF metric = "scrap_rate" THEN 1
    ELSE IF metric = "downtime_event_sec" THEN 2 ELSE 3

\* C28: for every metric value and every pair of positive thresholds taken
\* from the alert records of the KPI report, the status the dashboard gives
\* the value is the level the alert classifier gives it with that pair,
\* also when the value equals warning_gt or alert_gt.
C28_DashboardAgreesWithClassifier ==
    result.op = "cell_overall_status" =>
        \A metric \in DOMAIN result.thrs :
            LET pair == result.thrs[metric]
                value == C28_RowValue(result.row, metric)
            IN  (~value.null /\ pair.warning_gt > 0 /\ pair.alert_gt > 0) =>
                    result.statuses[C28_MetricIndex(metric)]
                        = Level(value.v, pair)

----------------------------------------------------------------------------
(* Row order and _max_downtime_event_seconds *)

\* the tables that hold the rows of df in another order
C29_Permutations(df) ==
    {[i \in 1..Len(df) |-> df[p[i]]] : p \in Injections(Len(df))}

\* C29: the result of _max_downtime_event_seconds is the same for every
\* order of the rows of the events table, also when an ERROR and a RESET of
\* one (cell_id, robot_id) stream carry the same timestamp.
C29_RowOrderIrrelevant ==
    IsDowntimeCall =>
        \A df \in C29_Permutations(events) :
            \A er \in TsSortedOrders(ErFrame(df)) :
                _max_downtime_event_seconds(er) = result.ret

----------------------------------------------------------------------------
(* The per-cell summaries and the whole run *)

\* the cells that occur in a row of the table
C30_CellsOf(df) == {df[i].cell_id : i \in {j \in 1..Len(df) : df[j].cell_id # NA}}

\* the sum of a field over the per-cell summaries
C30_Total(per_cell, field) ==
    SetSum([i \in 1..Len(per_cell) |-> per_cell[i][field]], 1..Len(per_cell))

\* C30: every cell_id of the events or the quality table has exactly one
\* per_cell summary and counts.cells is the number of these cells; when every
\* quality row has a cell_id, jobs_total and jobs_nok summed over per_cell
\* are the jobs_total and jobs_nok of compute_kpis on the whole tables.
C30_PerCellPartition ==
    C15_IsDrilldown =>
        LET per_cell == result.report.per_cell
            cells == C30_CellsOf(events) \cup C30_CellsOf(quality)
            whole == compute_kpis(events, quality)
        IN  /\ \A c \in cells :
                  Cardinality({i \in 1..Len(per_cell) : per_cell[i].cell_id = c}) = 1
            /\ \A i \in 1..Len(per_cell) : per_cell[i].cell_id \in cells
            /\ result.report.counts.cells = Cardinality(cells)
            /\ (\A i \in 1..Len(quality) : quality[i].cell_id # NA) =>
                  /\ C30_Total(per_cell, "jobs_total") = whole.jobs_total
                  /\ C30_Total(per_cell, "jobs_nok") = whole.jobs_nok

\* C30 witness: the quality rows of four cells and an event of cell C02:
\* four summaries, 32 jobs and 14 NOK jobs in all
C30_Witness ==
    /\ C15_IsDrilldown
    /\ quality = FourCellsQuality
    /\ events = <<EventRow(T0, "C02", "R01", "J2", "ERROR", "CDD1")>>
    /\ Len(result.report.per_cell) = 4
    /\ C30_Total(result.report.per_cell, "jobs_total") = 32
    /\ C30_Total(result.report.per_cell, "jobs_nok") = 14
    /\ compute_kpis(events, quality).jobs_total = 32

----------------------------------------------------------------------------
(* Overlapping report-kpi invocations: two processes run cmd_report_kpi at
   the same time.  Path.write_text is open(path, "w") followed by one write
   of the text at the start of the file; a file is held here as the
   sequence of the chunks of its text *)

Writers == {1, 2}

MaxReportLen == 3

MaxRaceClock == 1

\* json.dumps(kpis, indent=2) of invocation p, n chunks long: the length
\* depends on the tables the invocation was given
ReportText(p, n) == [k \in 1..n |-> <<p, k>>]

\* open(path, "w"): the file is created or truncated
OpenTruncate(files, name) == WriteText(files, name, <<>>)

\* write(data) through a descriptor positioned at the start of the file:
\* the first Len(data) chunks are replaced, what lies behind them stays
WriteAtStart(files, name, data) ==
    LET old == files[name]
        n == IF Len(old) > Len(data) THEN Len(old) ELSE Len(data)
    IN  WriteText(files, name,
                  [k \in 1..n |-> IF k <= Len(data) THEN data[k] ELSE old[k]])

NotStarted == [pc |-> "idle", text |-> <<>>, stamp |-> 0, order |-> 0, exit |-> -1]

\* how many writes of the latest file have been made
LatestWrites == Cardinality({p \in Writers : writers[p].order > 0})

InitRace ==
    /\ config_file = FileMissing
    /\ thresholds = PyNone
    /\ events = <<>>
    /\ quality = <<>>
    /\ result = NoResult
    /\ reports = NoReports
    /\ clock = 0
    /\ data_files = NoFiles
    /\ runner = Idle
    /\ invocations = 0
    /\ writers = [p \in Writers |-> NotStarted]

\* lines 134-159: the stamp is taken, the tables are read, the report is
\* computed and serialised
ComputeReport(p) ==
    /\ writers[p].pc = "idle"
    /\ \E n \in 1..MaxReportLen :
          writers' = [writers EXCEPT ![p] =
                         [NotStarted EXCEPT !.pc = "computed",
                                            !.text = ReportText(p, n),
                                            !.stamp = clock]]
    /\ invocations' = invocations + 1
    /\ UNCHANGED <<config_file, thresholds, events, quality, result, reports,
                   clock, data_files, runner>>

\* line 162, first half: open kpi_report_<stamp>.json for writing
OpenStamped(p) ==
    /\ writers[p].pc = "computed"
    /\ reports' = OpenTruncate(reports, StampedReport("kpi", writers[p].stamp))
    /\ writers' = [writers EXCEPT ![p].pc = "stamped_open"]
    /\ UNCHANGED <<config_file, thresholds, events, quality, result, clock,
                   data_files, runner, invocations>>

\* line 162, second half: the text is written and the file closed
WriteStamped(p) ==
    /\ writers[p].pc = "stamped_open"
    /\ reports' = WriteAtStart(reports, StampedReport("kpi", writers[p].stamp),
                               writers[p].text)
    /\ writers' = [writers EXCEPT ![p].pc = "stamped_written"]
    /\ UNCHANGED <<config_file, thresholds, events, quality, result, clock,
                   data_files, runner, invocations>>

\* line 166, first half: open kpi_report_latest.json for writing
OpenLatest(p) ==
    /\ writers[p].pc = "stamped_written"
    /\ reports' = OpenTruncate(reports, LatestReport("kpi"))
    /\ writers' = [writers EXCEPT ![p].pc = "latest_open"]
    /\ UNCHANGED <<config_file, thresholds, events, quality, result, clock,
                   data_files, runner, invocations>>

\* line 166, second half: the text is written and the file closed
WriteLatest(p) ==
    /\ writers[p].pc = "latest_open"
    /\ reports' = WriteAtStart(reports, LatestReport("kpi"), writers[p].text)
    /\ writers' = [writers EXCEPT ![p].pc = "latest_written",
                                  ![p].order = LatestWrites + 1]
    /\ UNCHANGED <<config_file, thresholds, events, quality, result, clock,
                   data_files, runner, invocations>>

\* lines 168-171: the paths are printed and 0 is returned
ReturnFromReportKpi(p) ==
    /\ writers[p].pc = "latest_written"
    /\ writers' = [writers EXCEPT ![p].pc = "done", ![p].exit = 0]
    /\ result' = [op |-> "cmd_report_kpi", by |-> p, exit |-> 0]
    /\ UNCHANGED <<config_file, thresholds, events, quality, reports, clock,
                   data_files, runner, invocations>>

\* a second passes
RaceTick ==
    /\ clock < MaxRaceClock
    /\ clock' = clock + 1
    /\ UNCHANGED <<config_file, thresholds, events, quality, result, reports,
                   data_files, runner, invocations, writers>>

NextRace ==
    \/ \E p \in Writers : ComputeReport(p)
    \/ \E p \in Writers : OpenStamped(p)
    \/ \E p \in Writers : WriteStamped(p)
    \/ \E p \in Writers : OpenLatest(p)
    \/ \E p \in Writers : WriteLatest(p)
    \/ \E p \in Writers : ReturnFromReportKpi(p)
    \/ RaceTick

SpecRace == InitRace /\ [][NextRace]_vars

\* C21: once two overlapping invocations have both finished, the latest
\* file holds the complete report of the invocation that wrote it last and
\* nothing of the other report, and both invocations have returned 0.
C21_LastWriterWins ==
    (\A p \in Writers : writers[p].pc = "done") =>
        /\ \E p \in Writers :
              /\ writers[p].order = Cardinality(Writers)
              /\ reports[LatestReport("kpi")] = writers[p].text
        /\ \A p \in Writers : writers[p].exit = 0

====
